---- MODULE Spec2Model ----
(***************************************************************************)
(* The Feishu channel adapter of the gateway: the inbound authorization    *)
(* and routing pipeline of extensions/feishu (processMessageWithPipeline), *)
(* its pure helpers, the message-received event handler and the            *)
(* connection registry of startFeishuMonitor.                              *)
(*                                                                         *)
(* Strings of the program are sequences of one-character strings, so that  *)
(* trim, lower-casing, prefix stripping and substring search are computed  *)
(* as the code computes them.  An optional value (a field that may be      *)
(* undefined) is the empty sequence or a one-element sequence.             *)
(***************************************************************************)
EXTENDS Integers, Sequences, FiniteSets, TLC

(***************************************************************************)
(* Strings                                                                 *)
(***************************************************************************)
UpperChars == <<"A","B","C","D","E","F","G","H","I","J","K","L","M",
                "N","O","P","Q","R","S","T","U","V","W","X","Y","Z">>

LowerChars == <<"a","b","c","d","e","f","g","h","i","j","k","l","m",
                "n","o","p","q","r","s","t","u","v","w","x","y","z">>

WhiteSpace == {" ", "\t", "\n"}

\* String.prototype.toLowerCase on one character.
LowerChar(c) ==
  IF \E i \in 1..Len(UpperChars) : UpperChars[i] = c
    THEN LowerChars[CHOOSE i \in 1..Len(UpperChars) : UpperChars[i] = c]
    ELSE c

ToLowerCase(s) == [i \in 1..Len(s) |-> LowerChar(s[i])]

RECURSIVE TrimStart(_)
TrimStart(s) ==
  IF s # <<>> /\ Head(s) \in WhiteSpace THEN TrimStart(Tail(s)) ELSE s

RECURSIVE TrimEnd(_)
TrimEnd(s) ==
  IF s # <<>> /\ s[Len(s)] \in WhiteSpace
    THEN TrimEnd(SubSeq(s, 1, Len(s) - 1))
    ELSE s

\* String.prototype.trim
Trim(s) == TrimEnd(TrimStart(s))

\* String.prototype.startsWith
StartsWith(s, p) == Len(s) >= Len(p) /\ SubSeq(s, 1, Len(p)) = p

\* String.prototype.includes
Includes(s, sub) ==
  \E i \in 0..(Len(s) - Len(sub)) : SubSeq(s, i + 1, i + Len(sub)) = sub

\* String.prototype.slice(n)
SliceFrom(s, n) == SubSeq(s, n + 1, Len(s))

(***************************************************************************)
(* Optional values: x?.f, a ?? b                                           *)
(***************************************************************************)
None == <<>>

Some(v) == <<v>>

Coalesce(opt, dflt) == IF opt # None THEN opt[1] ELSE dflt

(***************************************************************************)
(* String literals of the program                                          *)
(***************************************************************************)
Star == <<"*">>

AtMarker == <<"<","a","t"," ">>

PrefixFeishu == <<"f","e","i","s","h","u",":">>

PrefixLark == <<"l","a","r","k",":">>

PrefixUser == <<"u","s","e","r",":">>

PrefixOpenId == <<"o","p","e","n","_","i","d",":">>

PrefixChat == <<"c","h","a","t",":">>

PrefixOpen == <<"o","p","e","n",":">>

\* The alternatives of /^(feishu|lark|user|open_id):/i, in the regex's order.
AllowPrefixes == <<PrefixFeishu, PrefixLark, PrefixUser, PrefixOpenId>>

(***************************************************************************)
(* Pure helpers of the pipeline                                            *)
(***************************************************************************)
\* normalizeUserId: trim, then lower-case; undefined and blank give "".
normalizeUserId(raw) ==
  LET trimmed == IF raw = None THEN <<>> ELSE Trim(raw[1])
  IN  IF trimmed = <<>> THEN <<>> ELSE ToLowerCase(trimmed)

\* resolveSenderId: the first non-blank of open_id, user_id, union_id, trimmed.
resolveSenderId(sender) ==
  LET ids == IF sender = None
               THEN [open_id |-> None, user_id |-> None, union_id |-> None]
               ELSE sender[1].sender_id
      t(x) == IF x = None THEN <<>> ELSE Trim(x[1])
  IN  IF t(ids.open_id) # <<>> THEN t(ids.open_id)
      ELSE IF t(ids.user_id) # <<>> THEN t(ids.user_id)
      ELSE IF t(ids.union_id) # <<>> THEN t(ids.union_id)
      ELSE <<>>

\* The entry compared as it stands, no prefix stripped.
C12_StripNothing(s) == s

\* normalized.replace(/^(feishu|lark|user|open_id):/i, "")
StripAllowPrefix(s) ==
  IF \E i \in 1..Len(AllowPrefixes) : StartsWith(ToLowerCase(s), AllowPrefixes[i])
    THEN LET i == CHOOSE j \in 1..Len(AllowPrefixes) :
                    StartsWith(ToLowerCase(s), AllowPrefixes[j])
         IN  SliceFrom(s, Len(AllowPrefixes[i]))
    ELSE s

\* The callback of allowFrom.some in isSenderAllowed.
EntryMatches(entry, normalizedSenderId) ==
  LET normalized == ToLowerCase(Trim(entry))
  IN  IF normalized = <<>> THEN FALSE
      ELSE IF normalized = normalizedSenderId THEN TRUE
      ELSE StripAllowPrefix(normalized) = normalizedSenderId

\* isSenderAllowed with "*" treated as one more entry to compare with.
C11_IsSenderAllowedWildcardAsEntry(senderId, allowFrom) ==
  LET normalizedSenderId == normalizeUserId(Some(senderId))
  IN  \E i \in 1..Len(allowFrom) : EntryMatches(allowFrom[i], normalizedSenderId)

\* isSenderAllowed(senderId, allowFrom); allowFrom is a sequence of strings.
isSenderAllowed(senderId, allowFrom) ==
  IF \E i \in 1..Len(allowFrom) : allowFrom[i] = Star THEN TRUE
  ELSE LET normalizedSenderId == normalizeUserId(Some(senderId))
       IN  \E i \in 1..Len(allowFrom) : EntryMatches(allowFrom[i], normalizedSenderId)

(***************************************************************************)
(* Message content.  message.content is a string ([kind |-> "string"]),    *)
(* an object with an optional text field ([kind |-> "object"]) or absent   *)
(* ([kind |-> "none"]).                                                    *)
(***************************************************************************)
StringContent(s) == [kind |-> "string", s |-> s, text |-> None]

ObjectContent(text) == [kind |-> "object", s |-> <<>>, text |-> text]

NoContent == [kind |-> "none", s |-> <<>>, text |-> None]

JsonTextOpen == <<"{","\"","t","e","x","t","\"",":","\"">>

\* The JSON string that starts at s[i], after its opening quote: the
\* characters up to the closing quote, with \" and \\ unescaped.
RECURSIVE JsonString(_, _, _)
JsonString(s, i, acc) ==
  IF i > Len(s) THEN [ok |-> FALSE, val |-> <<>>, next |-> i]
  ELSE IF s[i] = "\"" THEN [ok |-> TRUE, val |-> acc, next |-> i + 1]
  ELSE IF s[i] = "\\"
    THEN IF i + 1 <= Len(s) /\ s[i + 1] \in {"\"", "\\"}
           THEN JsonString(s, i + 2, Append(acc, s[i + 1]))
           ELSE [ok |-> FALSE, val |-> <<>>, next |-> i]
  ELSE JsonString(s, i + 1, Append(acc, s[i]))

\* JSON.parse(trimmed).text when it is a string, for the documents
\* {"text":"..."}; every other input either fails to parse or has no string
\* text field, and both make extractMessageText fall through to the raw
\* content.
JsonTextField(s) ==
  IF StartsWith(s, JsonTextOpen)
    THEN LET r == JsonString(s, Len(JsonTextOpen) + 1, <<>>)
         IN  IF r.ok /\ r.next = Len(s) /\ s[r.next] = "}"
               THEN Some(r.val) ELSE None
    ELSE None

extractMessageText(content) ==
  IF content.kind = "string"
    THEN LET trimmed == Trim(content.s)
         IN  IF trimmed = <<>> THEN <<>>
             ELSE IF StartsWith(trimmed, <<"{">>) \/ StartsWith(trimmed, <<"[">>)
               THEN LET parsed == JsonTextField(trimmed)
                        text == IF parsed = None THEN <<>> ELSE Trim(parsed[1])
                    IN  IF text # <<>> THEN text ELSE trimmed
               ELSE trimmed
  ELSE IF content.kind = "object"
    THEN IF content.text = None THEN <<>> ELSE Trim(content.text[1])
  ELSE <<>>

\* const rawContent = typeof message.content === "string" ? message.content : ""
RawContentOf(content) == IF content.kind = "string" THEN content.s ELSE <<>>

(***************************************************************************)
(* Mention extraction                                                      *)
(***************************************************************************)
\* `user_id=\"${botUserId}\"`
MentionMarker(botUserId) ==
  <<"u","s","e","r","_","i","d","=","\\","\"">> \o botUserId \o <<"\\","\"">>

\* [botOpenId?.trim(), botUserId?.trim(), botName?.trim()].filter(Boolean)
MentionTargets(botOpenId, botUserId, botName) ==
  { Trim(x[1]) : x \in { y \in {botOpenId, botUserId, botName} : y # None } }
    \ { <<>> }

\* One entry of message.mentions against the targets (the loop body).
MentionEntryHits(entry, targets) ==
  LET t(x) == IF x = None THEN <<>> ELSE Trim(x[1])
  IN  t(entry.name) \in targets \/ t(entry.open_id) \in targets
        \/ t(entry.user_id) \in targets

extractMentionInfo(mentions, rawContent, botOpenId, botUserId, botName) ==
  LET list == IF mentions = None THEN <<>> ELSE mentions[1]
      hasAnyMention == Len(list) > 0 \/ Includes(rawContent, AtMarker)
      targets == MentionTargets(botOpenId, botUserId, botName)
      structured == \E i \in 1..Len(list) : MentionEntryHits(list[i], targets)
      inline == botUserId # None /\ botUserId[1] # <<>>
                  /\ Includes(rawContent, MentionMarker(botUserId[1]))
      canDetectMention == Len(list) > 0 \/ Includes(rawContent, AtMarker)
  IN  [hasAnyMention |-> hasAnyMention,
       wasMentioned |-> structured \/ inline,
       canDetectMention |-> canDetectMention]

(***************************************************************************)
(* Group entries.  groups is an optional function from keys to entries.    *)
(***************************************************************************)
\* resolveGroupConfig with the wildcard entry tried first.
C24_ResolveWildcardFirst(groupId, groupName, groups) ==
  LET entries == IF groups = None THEN <<>> ELSE groups[1]
      keys == DOMAIN entries
      lookup(k) == IF k \in keys THEN Some(entries[k]) ELSE None
      normalizedName == IF groupName = None THEN <<>>
                        ELSE ToLowerCase(Trim(groupName[1]))
      candidates == SelectSeq(<<Star, groupId, Coalesce(groupName, <<>>),
                                normalizedName>>,
                              LAMBDA c : c # <<>>)
      hits == SelectSeq(candidates, LAMBDA c : lookup(c) # None)
  IN  [entry |-> IF hits = <<>> THEN None ELSE lookup(hits[1]),
       allowlistConfigured |-> keys # {},
       fallback |-> lookup(Star)]

\* resolveGroupConfig.  groupName is optional; the pipeline passes null.
resolveGroupConfig(groupId, groupName, groups) ==
  LET entries == IF groups = None THEN <<>> ELSE groups[1]
      keys == DOMAIN entries
      lookup(k) == IF k \in keys THEN Some(entries[k]) ELSE None
      normalizedName == IF groupName = None THEN None
                        ELSE Some(ToLowerCase(Trim(groupName[1])))
      candidates == SelectSeq(<<groupId, Coalesce(groupName, <<>>),
                                Coalesce(normalizedName, <<>>)>>,
                              LAMBDA c : c # <<>>)
      hits == SelectSeq(candidates, LAMBDA c : lookup(c) # None)
      byCandidate == IF hits = <<>> THEN None ELSE lookup(hits[1])
      entry == IF byCandidate = None /\ normalizedName # None
                    /\ normalizedName[1] # <<>>
                 THEN lookup(normalizedName[1])
                 ELSE byCandidate
      fallback == lookup(Star)
  IN  IF keys = {}
        THEN [entry |-> None, allowlistConfigured |-> FALSE, fallback |-> None]
        ELSE [entry |-> IF entry # None THEN entry ELSE fallback,
              allowlistConfigured |-> TRUE,
              fallback |-> fallback]

(***************************************************************************)
(* Collaborators of the plugin SDK whose code is outside these sources,    *)
(* taken from their documented contracts.                                  *)
(***************************************************************************)
\* The decision table of the mention gate, first matching row wins.
resolveMentionGatingWithBypass(params) ==
  LET bypass == params.isGroup /\ params.allowTextCommands
                  /\ params.hasControlCommand /\ params.commandAuthorized
  IN  IF ~params.requireMention
        THEN [shouldSkip |-> FALSE, effectiveWasMentioned |-> params.wasMentioned]
      ELSE IF params.wasMentioned
        THEN [shouldSkip |-> FALSE, effectiveWasMentioned |-> TRUE]
      ELSE IF bypass
        THEN [shouldSkip |-> FALSE, effectiveWasMentioned |-> TRUE]
      ELSE IF ~params.canDetectMention
        THEN [shouldSkip |-> FALSE, effectiveWasMentioned |-> FALSE]
      ELSE [shouldSkip |-> TRUE, effectiveWasMentioned |-> FALSE]

\* True iff useAccessGroups is false or a configured authorizer allows.
resolveCommandAuthorizedFromAuthorizers(useAccessGroups, configured, allowed) ==
  ~useAccessGroups \/ (configured /\ allowed)

(***************************************************************************)
(* State                                                                   *)
(***************************************************************************)
VARIABLES
  cfg,            \* the host configuration the account is resolved from
  startsLeft,     \* how many more times the host starts the account
  clients,        \* the WSClient objects created so far
  activeClients,  \* the registry: the client registered for the account id
  handles,        \* the stop closures startAccount has returned
  status,         \* the account's runtime status (ctx.setStatus)
  pendingPairing, \* pairing store: sender ids with a pending pairing request
  allowFromStore, \* pairing store: approved sender ids, in approval order
  createdRequests, \* pairing store: how many requests were created per sender id
  pairingReplies, \* how many pairing-code replies each sender id was delivered
  runs,           \* the invocations of the message-received handler
  allowCheck,     \* a call of isSenderAllowed: its arguments and its result
  groupCheck      \* a call of resolveGroupConfig and the group gate on its arguments

vars == <<cfg, startsLeft, clients, activeClients, handles, status,
          pendingPairing, allowFromStore, createdRequests, pairingReplies, runs,
          allowCheck, groupCheck>>

(***************************************************************************)
(* Locals of processMessageWithPipeline that depend on the event and the   *)
(* configuration only                                                      *)
(***************************************************************************)
P2P == <<"p","2","p">>

Bot == <<"b","o","t">>

\* message.chat_id?.trim() ?? ""
ChatIdOf(ev) ==
  IF ev.message = None THEN <<>> ELSE Trim(Coalesce(ev.message[1].chat_id, <<>>))

\* chatType !== "p2p"
IsGroupOf(ev) ==
  Trim(ToLowerCase(Coalesce(ev.message[1].chat_type, <<>>))) # P2P

SenderIdOf(ev) == resolveSenderId(ev.sender)

\* sender?.sender_type?.toLowerCase().trim()
SenderTypeOf(ev) ==
  IF ev.sender = None \/ ev.sender[1].sender_type = None THEN None
  ELSE Some(Trim(ToLowerCase(ev.sender[1].sender_type[1])))

RawContent(ev) == RawContentOf(ev.message[1].content)

RawBodyOf(ev) == Trim(extractMessageText(ev.message[1].content))

\* account.config.groupPolicy ?? defaultGroupPolicy ?? "allowlist"
GroupPolicyOf(c) ==
  Coalesce(c.account.groupPolicy, Coalesce(c.defaultGroupPolicy, "allowlist"))

GroupConfigResolved(c, ev) ==
  resolveGroupConfig(ChatIdOf(ev), None, c.account.groups)

GroupEntryOf(c, ev) == GroupConfigResolved(c, ev).entry

\* groupEntry?.users ?? []
GroupUsersOf(c, ev) ==
  IF GroupEntryOf(c, ev) = None THEN <<>>
  ELSE Coalesce(GroupEntryOf(c, ev)[1].users, <<>>)

\* Boolean(groupEntry) || Boolean((account.config.groups ?? {})["*"])
GroupAllowedOf(c, ev) ==
  GroupEntryOf(c, ev) # None
    \/ (c.account.groups # None /\ Star \in DOMAIN c.account.groups[1])

\* account.config.dm?.policy ?? "pairing"
DmPolicyOf(c) ==
  IF c.account.dm = None THEN "pairing"
  ELSE Coalesce(c.account.dm[1].policy, "pairing")

\* account.config.dm?.enabled === false
DmDisabledFlag(c) ==
  c.account.dm # None /\ c.account.dm[1].enabled = Some(FALSE)

\* (account.config.dm?.allowFrom ?? []).map(String)
ConfigAllowFromOf(c) ==
  IF c.account.dm = None THEN <<>> ELSE Coalesce(c.account.dm[1].allowFrom, <<>>)

\* config.commands?.useAccessGroups !== false
UseAccessGroupsOf(c) == c.useAccessGroups # Some(FALSE)

\* account.config.requireMention ?? true, the group entry left out.
C4_RequireMentionOfAccount(c, ev) == Coalesce(c.account.requireMention, TRUE)

\* groupEntry?.requireMention ?? account.config.requireMention ?? true
RequireMentionOf(c, ev) ==
  LET e == GroupEntryOf(c, ev)
      own == IF e = None THEN None ELSE e[1].requireMention
  IN  Coalesce(own, Coalesce(c.account.requireMention, TRUE))

MentionInfoOf(c, ev) ==
  extractMentionInfo(ev.message[1].mentions, RawContent(ev), c.account.botOpenId,
                     c.account.botUserId, c.account.botName)

\* The store read for every direct event, whatever the policy.
C21_NeedsStoreReadEveryDirect(c, ev, core) == ~IsGroupOf(ev)

\* !isGroup && (dmPolicy !== "open" || shouldComputeAuth)
NeedsStoreRead(c, ev, core) ==
  ~IsGroupOf(ev) /\ (DmPolicyOf(c) # "open" \/ core.shouldComputeAuth)

(***************************************************************************)
(* One invocation of the handler.  pc is where the invocation stands:      *)
(* "run" inside a synchronous stretch, the name of the awaited call at an  *)
(* await, "done" when the handler has returned.  trace lists, in order,    *)
(* the calls made and the verbose lines logged on behalf of this event;    *)
(* errors holds the lines written through runtime.error; storeRead says    *)
(* how the read of the pairing store's allow-list has ended.               *)
(***************************************************************************)
\* What the latest call of deliver did: the payload's text, the target of
\* the send it made (if any), whether the send succeeded, whether
\* statusSink was called and whether the call rejected.
NoDelivery == [called |-> FALSE, text |-> <<>>, to |-> None, sent |-> FALSE,
               status |-> FALSE, raised |-> FALSE]

IdleRun ==
  [pc |-> "idle", outcome |-> "none", ev |-> None, core |-> None,
   storeRead |-> "none", storeAllowFrom |-> <<>>, commandAuthorized |-> None,
   created |-> None,
   effectiveWasMentioned |-> None, ctx |-> None, rec |-> "none",
   lastDeliver |-> NoDelivery, trace |-> <<>>, errors |-> {}]

NewRun(ev, core) == [IdleRun EXCEPT !.pc = "run", !.ev = Some(ev), !.core = Some(core)]

Entry(op, arg) == [op |-> op, arg |-> arg]

Did(f, op) == [f EXCEPT !.trace = Append(@, Entry(op, <<>>))]

DidTo(f, op, arg) == [f EXCEPT !.trace = Append(@, Entry(op, arg))]

\* runtime.error?.(line)
Err(f, line) == [f EXCEPT !.errors = @ \cup {line}]

\* logVerbose: runtime.log only when core.logging.shouldLogVerbose().
logVerbose(f, line) == IF cfg.verbose THEN Did(f, line) ELSE f

\* `return` out of the pipeline.
Return(f, outcome) == [f EXCEPT !.pc = "done", !.outcome = outcome]

\* A failure that leaves processMessageWithPipeline: the catch of the
\* "im.message.receive_v1" handler reports it through runtime.error and the
\* handler returns.
Throw(f) == Return(Err(f, "feishu event handler failed"), "failed")

Ops(f) == { f.trace[i].op : i \in 1..Len(f.trace) }

\* if (!event || !message) return; if (!chatId) return;
Validate(c, f) ==
  IF f.pc # "run" THEN f
  ELSE IF f.ev[1].message = None THEN Return(f, "malformed")
  ELSE IF ChatIdOf(f.ev[1]) = <<>> THEN Return(f, "malformed")
  ELSE f

\* The bot-message filter looking at the sender kind only.
C27_BotFilterKindOnly(c, f) ==
  IF f.pc # "run" THEN f
  ELSE IF c.account.allowBots = Some(TRUE) THEN f
  ELSE IF SenderTypeOf(f.ev[1]) = Some(Bot)
    THEN Return(logVerbose(f, "log.skipBot"), "bot")
  ELSE f

\* The bot-message filter.
BotFilter(c, f) ==
  IF f.pc # "run" THEN f
  ELSE IF c.account.allowBots = Some(TRUE) THEN f
  ELSE IF SenderTypeOf(f.ev[1]) = Some(Bot)
    THEN Return(logVerbose(f, "log.skipBot"), "bot")
  ELSE IF SenderIdOf(f.ev[1]) # <<>> /\ c.account.botOpenId # None
            /\ SenderIdOf(f.ev[1]) = Trim(c.account.botOpenId[1])
    THEN Return(logVerbose(f, "log.skipBotOpenId"), "bot")
  ELSE f

\* The body check with a verbose log line for the event it drops.
C25_BodyCheckLogsDrop(c, f) ==
  IF f.pc # "run" THEN f
  ELSE IF RawBodyOf(f.ev[1]) = <<>>
    THEN Return(logVerbose(f, "log.dropEmptyBody"), "malformed")
  ELSE f

\* if (!rawBody) return;
BodyCheck(c, f) ==
  IF f.pc # "run" THEN f
  ELSE IF RawBodyOf(f.ev[1]) = <<>> THEN Return(f, "malformed")
  ELSE f

\* The member allow-list check made under groupPolicy = allowlist only.
C23_GroupSenderCheckAllowlistOnly(c, f) ==
  IF Len(GroupUsersOf(c, f.ev[1])) > 0 /\ GroupPolicyOf(c) = "allowlist"
    THEN LET g == Did(f, "isSenderAllowed")
         IN  IF isSenderAllowed(SenderIdOf(f.ev[1]), GroupUsersOf(c, f.ev[1]))
               THEN g
               ELSE Return(logVerbose(g, "log.dropSenderNotAllowed"), "groupSender")
    ELSE f

\* The member allow-list check of the group gate.
GroupSenderCheck(c, f) ==
  IF Len(GroupUsersOf(c, f.ev[1])) > 0
    THEN LET g == Did(f, "isSenderAllowed")
         IN  IF isSenderAllowed(SenderIdOf(f.ev[1]), GroupUsersOf(c, f.ev[1]))
               THEN g
               ELSE Return(logVerbose(g, "log.dropSenderNotAllowed"), "groupSender")
    ELSE f

\* The group gate with the groupPolicy = disabled check moved behind the
\* member allow-list check.
C5_GroupGatePolicyLast(c, f) ==
  IF f.pc # "run" \/ ~IsGroupOf(f.ev[1]) THEN f
  ELSE LET g == GroupSenderCheck(c, f)
       IN  IF g.pc = "run" /\ GroupPolicyOf(c) = "disabled"
             THEN Return(logVerbose(g, "log.dropGroupDisabled"), "groupDisabled")
             ELSE g

\* The group gate without the two checks of groupPolicy = allowlist.
C6_GroupGateWithoutAllowlist(c, f) ==
  IF f.pc # "run" \/ ~IsGroupOf(f.ev[1]) THEN f
  ELSE IF GroupPolicyOf(c) = "disabled"
    THEN Return(logVerbose(f, "log.dropGroupDisabled"), "groupDisabled")
  ELSE IF GroupEntryOf(c, f.ev[1]) # None
            /\ (GroupEntryOf(c, f.ev[1])[1].enabled = Some(FALSE)
                  \/ GroupEntryOf(c, f.ev[1])[1].allow = Some(FALSE))
    THEN Return(logVerbose(f, "log.dropChatDisabled"), "groupEntryDisabled")
  ELSE GroupSenderCheck(c, f)

\* The group gate with the enabled/allow check of the entry made under
\* groupPolicy = allowlist only.
C22_GroupGateOpenSkipsEntry(c, f) ==
  IF f.pc # "run" \/ ~IsGroupOf(f.ev[1]) THEN f
  ELSE IF GroupPolicyOf(c) = "disabled"
    THEN Return(logVerbose(f, "log.dropGroupDisabled"), "groupDisabled")
  ELSE IF GroupPolicyOf(c) = "allowlist"
            /\ ~GroupConfigResolved(c, f.ev[1]).allowlistConfigured
    THEN Return(logVerbose(f, "log.dropNoAllowlist"), "groupNoAllowlist")
  ELSE IF GroupPolicyOf(c) = "allowlist" /\ ~GroupAllowedOf(c, f.ev[1])
    THEN Return(logVerbose(f, "log.dropNotAllowlisted"), "groupNotAllowlisted")
  ELSE IF GroupPolicyOf(c) = "allowlist" /\ GroupEntryOf(c, f.ev[1]) # None
            /\ (GroupEntryOf(c, f.ev[1])[1].enabled = Some(FALSE)
                  \/ GroupEntryOf(c, f.ev[1])[1].allow = Some(FALSE))
    THEN Return(logVerbose(f, "log.dropChatDisabled"), "groupEntryDisabled")
  ELSE GroupSenderCheck(c, f)

\* if (isGroup) { ... } : the group gate.
GroupGate(c, f) ==
  IF f.pc # "run" \/ ~IsGroupOf(f.ev[1]) THEN f
  ELSE IF GroupPolicyOf(c) = "disabled"
    THEN Return(logVerbose(f, "log.dropGroupDisabled"), "groupDisabled")
  ELSE IF GroupPolicyOf(c) = "allowlist"
            /\ ~GroupConfigResolved(c, f.ev[1]).allowlistConfigured
    THEN Return(logVerbose(f, "log.dropNoAllowlist"), "groupNoAllowlist")
  ELSE IF GroupPolicyOf(c) = "allowlist" /\ ~GroupAllowedOf(c, f.ev[1])
    THEN Return(logVerbose(f, "log.dropNotAllowlisted"), "groupNotAllowlisted")
  ELSE IF GroupEntryOf(c, f.ev[1]) # None
            /\ (GroupEntryOf(c, f.ev[1])[1].enabled = Some(FALSE)
                  \/ GroupEntryOf(c, f.ev[1])[1].allow = Some(FALSE))
    THEN Return(logVerbose(f, "log.dropChatDisabled"), "groupEntryDisabled")
  ELSE GroupSenderCheck(c, f)

\* Lines 464-470: the should-compute predicate, then the store read if the
\* conversation is direct and the policy or the predicate asks for it.
StoreReadDecision(c, f) ==
  IF f.pc # "run" THEN f
  ELSE LET g == Did(f, "shouldComputeCommandAuthorized")
       IN  IF NeedsStoreRead(c, f.ev[1], f.core[1])
             THEN [Did(g, "readAllowFromStore") EXCEPT !.pc = "readStore"]
             ELSE g

\* The stretch from the start of the pipeline to its first await.
FirstStretch(c, f) ==
  StoreReadDecision(c, GroupGate(c, BodyCheck(c, BotFilter(c, Validate(c, f)))))

\* commandAllowFrom without the store's list.
C13_CommandAllowFromConfigOnly(c, f) ==
  IF IsGroupOf(f.ev[1]) THEN GroupUsersOf(c, f.ev[1]) ELSE ConfigAllowFromOf(c)

\* [...configAllowFrom, ...storeAllowFrom], or the group's member list.
CommandAllowFrom(c, f) ==
  IF IsGroupOf(f.ev[1]) THEN GroupUsersOf(c, f.ev[1])
  ELSE ConfigAllowFromOf(c) \o f.storeAllowFrom

SenderAllowedForCommands(c, f) ==
  isSenderAllowed(SenderIdOf(f.ev[1]), CommandAllowFrom(c, f))

\* Lines 471-482: commandAuthorized, undefined when it need not be computed.
Authorize(c, f) ==
  IF f.pc # "run" THEN f
  ELSE LET g == Did(f, "isSenderAllowed")
       IN  IF f.core[1].shouldComputeAuth
             THEN [Did(g, "resolveCommandAuthorized") EXCEPT
                     !.commandAuthorized =
                        Some(resolveCommandAuthorizedFromAuthorizers(
                               UseAccessGroupsOf(c),
                               Len(CommandAllowFrom(c, f)) > 0,
                               SenderAllowedForCommands(c, f)))]
             ELSE g

MentionGateOf(c, f) ==
  LET mentionInfo == MentionInfoOf(c, f.ev[1])
  IN  resolveMentionGatingWithBypass(
        [isGroup |-> TRUE,
         requireMention |-> RequireMentionOf(c, f.ev[1]),
         canDetectMention |-> mentionInfo.canDetectMention,
         wasMentioned |-> mentionInfo.wasMentioned,
         implicitMention |-> FALSE,
         hasAnyMention |-> mentionInfo.hasAnyMention,
         allowTextCommands |-> c.allowTextCommands,
         hasControlCommand |-> f.core[1].hasControlCommand,
         commandAuthorized |-> f.commandAuthorized = Some(TRUE)])

\* The mention gate with the early return on shouldSkip left out.
C1_MentionGateNeverSkips(c, f) ==
  IF f.pc # "run" \/ ~IsGroupOf(f.ev[1]) THEN f
  ELSE [Did(Did(f, "extractMentionInfo"), "resolveMentionGating") EXCEPT
          !.effectiveWasMentioned =
             Some(MentionGateOf(c, f).effectiveWasMentioned)]

\* The mention gate returning on `requireMention && !effectiveWasMentioned`
\* in place of shouldSkip.
C2_MentionGateSkipsUnmentioned(c, f) ==
  IF f.pc # "run" \/ ~IsGroupOf(f.ev[1]) THEN f
  ELSE LET g == [Did(Did(f, "extractMentionInfo"), "resolveMentionGating") EXCEPT
                   !.effectiveWasMentioned =
                      Some(MentionGateOf(c, f).effectiveWasMentioned)]
       IN  IF RequireMentionOf(c, f.ev[1])
                /\ ~MentionGateOf(c, f).effectiveWasMentioned
             THEN Return(logVerbose(g, "log.dropMentionRequired"), "mention")
             ELSE g

\* Lines 484-513: the mention gate of a group conversation.
MentionGate(c, f) ==
  IF f.pc # "run" \/ ~IsGroupOf(f.ev[1]) THEN f
  ELSE LET g == [Did(Did(f, "extractMentionInfo"), "resolveMentionGating") EXCEPT
                   !.effectiveWasMentioned =
                      Some(MentionGateOf(c, f).effectiveWasMentioned)]
       IN  IF MentionGateOf(c, f).shouldSkip
             THEN Return(logVerbose(g, "log.dropMentionRequired"), "mention")
             ELSE g

\* The DM gate matching the sender against the allow-list under every
\* policy, open included.
C8_DmGateOpenChecksSender(c, f) ==
  IF f.pc # "run" \/ IsGroupOf(f.ev[1]) THEN f
  ELSE IF DmPolicyOf(c) = "disabled" \/ DmDisabledFlag(c)
    THEN Return(logVerbose(f, "log.dmDisabled"), "dmDisabled")
  ELSE IF SenderAllowedForCommands(c, f) THEN f
  ELSE IF DmPolicyOf(c) = "pairing"
    THEN [DidTo(f, "upsertPairingRequest", SenderIdOf(f.ev[1])) EXCEPT
            !.pc = "upsert"]
  ELSE Return(logVerbose(f, "log.dmUnauthorized"), "dmUnauthorized")

\* The DM gate telling a sender blocked under the allowlist policy so.
C9_DmGateNotifiesBlocked(c, f) ==
  IF f.pc # "run" \/ IsGroupOf(f.ev[1]) THEN f
  ELSE IF DmPolicyOf(c) = "disabled" \/ DmDisabledFlag(c)
    THEN Return(logVerbose(f, "log.dmDisabled"), "dmDisabled")
  ELSE IF DmPolicyOf(c) = "open" \/ SenderAllowedForCommands(c, f) THEN f
  ELSE IF DmPolicyOf(c) = "pairing"
    THEN [DidTo(f, "upsertPairingRequest", SenderIdOf(f.ev[1])) EXCEPT
            !.pc = "upsert"]
  ELSE Return(logVerbose(DidTo(f, "sendFeishuText",
                               PrefixOpenId \o SenderIdOf(f.ev[1])),
                         "log.dmUnauthorized"), "dmUnauthorized")

\* The DM gate starting the pairing handshake under the allowlist policy,
\* too.
C20_DmGatePairsUnderAllowlist(c, f) ==
  IF f.pc # "run" \/ IsGroupOf(f.ev[1]) THEN f
  ELSE IF DmPolicyOf(c) = "disabled" \/ DmDisabledFlag(c)
    THEN Return(logVerbose(f, "log.dmDisabled"), "dmDisabled")
  ELSE IF DmPolicyOf(c) = "open" \/ SenderAllowedForCommands(c, f) THEN f
  ELSE [DidTo(f, "upsertPairingRequest", SenderIdOf(f.ev[1])) EXCEPT
          !.pc = "upsert"]

\* Lines 515-556: the gate of a direct conversation, up to the await of
\* upsertPairingRequest.
DmGate(c, f) ==
  IF f.pc # "run" \/ IsGroupOf(f.ev[1]) THEN f
  ELSE IF DmPolicyOf(c) = "disabled" \/ DmDisabledFlag(c)
    THEN Return(logVerbose(f, "log.dmDisabled"), "dmDisabled")
  ELSE IF DmPolicyOf(c) = "open" \/ SenderAllowedForCommands(c, f) THEN f
  ELSE IF DmPolicyOf(c) = "pairing"
    THEN [DidTo(f, "upsertPairingRequest", SenderIdOf(f.ev[1])) EXCEPT
            !.pc = "upsert"]
  ELSE Return(logVerbose(f, "log.dmUnauthorized"), "dmUnauthorized")

\* The control-command gate dropping on commandAuthorized === false only.
C26_ControlGateUndefinedPasses(c, f) ==
  IF f.pc # "run" THEN f
  ELSE IF IsGroupOf(f.ev[1]) /\ f.core[1].isControlCommand
            /\ f.commandAuthorized = Some(FALSE)
    THEN Return(logVerbose(f, "log.dropControlCommand"), "controlCommand")
  ELSE f

\* Lines 558-565: a control command of a group needs commandAuthorized === true.
ControlCommandGate(c, f) ==
  IF f.pc # "run" THEN f
  ELSE IF IsGroupOf(f.ev[1]) /\ f.core[1].isControlCommand
            /\ f.commandAuthorized # Some(TRUE)
    THEN Return(logVerbose(f, "log.dropControlCommand"), "controlCommand")
  ELSE f

FeishuColon == <<"f","e","i","s","h","u",":">>

\* ctxPayload carrying mentionInfo.wasMentioned in place of the gate's
\* effective value.
C3_ContextWithRawMention(c, f) ==
  [From |-> FeishuColon \o SenderIdOf(f.ev[1]),
   To |-> FeishuColon \o ChatIdOf(f.ev[1]),
   SessionKey |-> <<c.account.accountId,
                    IF IsGroupOf(f.ev[1]) THEN "group" ELSE "dm",
                    ChatIdOf(f.ev[1])>>,
   ChatType |-> IF IsGroupOf(f.ev[1]) THEN "channel" ELSE "direct",
   SenderId |-> SenderIdOf(f.ev[1]),
   WasMentioned |-> IF IsGroupOf(f.ev[1])
                      THEN Some(MentionInfoOf(c, f.ev[1]).wasMentioned) ELSE None,
   CommandAuthorized |-> f.commandAuthorized]

\* The fields of ctxPayload that the gates decide.
ContextOf(c, f) ==
  [From |-> FeishuColon \o SenderIdOf(f.ev[1]),
   To |-> FeishuColon \o ChatIdOf(f.ev[1]),
   SessionKey |-> <<c.account.accountId,
                    IF IsGroupOf(f.ev[1]) THEN "group" ELSE "dm",
                    ChatIdOf(f.ev[1])>>,
   ChatType |-> IF IsGroupOf(f.ev[1]) THEN "channel" ELSE "direct",
   SenderId |-> SenderIdOf(f.ev[1]),
   WasMentioned |-> IF IsGroupOf(f.ev[1]) THEN f.effectiveWasMentioned ELSE None,
   CommandAuthorized |-> f.commandAuthorized]

\* The recording awaited before the dispatcher is called.
C17_BuildAwaitsRecording(c, f, buildThrows) ==
  IF f.pc # "run" THEN f
  ELSE IF buildThrows THEN Throw(Did(f, "resolveAgentRoute"))
  ELSE [Did(Did(f, "resolveAgentRoute"), "recordSessionMetaFromInbound") EXCEPT
          !.ctx = Some(ContextOf(c, f)), !.rec = "pending", !.pc = "record"]

\* Lines 567-657: route resolution and context building (calls into the
\* core, which may throw), the detached session-metadata recording, and the
\* call of the dispatcher, which is awaited.
BuildAndDispatch(c, f, buildThrows) ==
  IF f.pc # "run" THEN f
  ELSE IF buildThrows THEN Throw(Did(f, "resolveAgentRoute"))
  ELSE [Did(Did(Did(f, "resolveAgentRoute"), "recordSessionMetaFromInbound"),
            "dispatchReply") EXCEPT
          !.ctx = Some(ContextOf(c, f)), !.rec = "pending", !.pc = "dispatch"]

\* The gates after the store read (or after the decision not to read).
Gates(c, f) ==
  ControlCommandGate(c, DmGate(c, MentionGate(c, Authorize(c, f))))

\* Whether the core's route resolution and context building may fail is
\* open only for a run that reaches them.
BuildOutcomes(f) == IF f.pc = "run" THEN BOOLEAN ELSE {FALSE}

(***************************************************************************)
(* Sending (api.ts)                                                        *)
(***************************************************************************)
\* resolveReceiveTarget: None for a blank target.
resolveReceiveTarget(raw) ==
  LET trimmed == Trim(raw)
      lower == ToLowerCase(trimmed)
      rest(p) == Trim(SliceFrom(trimmed, Len(p)))
  IN  IF trimmed = <<>> THEN None
      ELSE IF StartsWith(lower, PrefixChat)
        THEN Some([receiveIdType |-> "chat_id", receiveId |-> rest(PrefixChat)])
      ELSE IF StartsWith(lower, PrefixOpenId)
        THEN Some([receiveIdType |-> "open_id", receiveId |-> rest(PrefixOpenId)])
      ELSE IF StartsWith(lower, PrefixOpen)
        THEN Some([receiveIdType |-> "open_id", receiveId |-> rest(PrefixOpen)])
      ELSE IF StartsWith(lower, PrefixUser)
        THEN Some([receiveIdType |-> "user_id", receiveId |-> rest(PrefixUser)])
      ELSE Some([receiveIdType |-> "chat_id", receiveId |-> trimmed])

\* sendFeishuText throws before any request when the target is empty or has
\* no receive id.
SendRejectsTarget(to) ==
  resolveReceiveTarget(to) = None \/ resolveReceiveTarget(to)[1].receiveId = <<>>

(***************************************************************************)
(* Actions: the message-received handler                                   *)
(***************************************************************************)
Slots == DOMAIN runs

Connected == \E i \in 1..Len(clients) : clients[i].running

\* A started client hands an event to the "im.message.receive_v1" handler,
\* which runs the pipeline up to its first await or to its end.
Receive(r, ev, core) ==
  /\ Connected
  /\ runs[r].pc = "idle"
  /\ LET f1 == FirstStretch(cfg, NewRun(ev, core))
         f2 == IF f1.pc = "run" THEN Gates(cfg, f1) ELSE f1
     IN  \E buildThrows \in BuildOutcomes(f2) :
           runs' = [runs EXCEPT ![r] = BuildAndDispatch(cfg, f2, buildThrows)]
  /\ UNCHANGED <<allowCheck, groupCheck, cfg, startsLeft, clients, activeClients, handles, status,
                 pendingPairing, allowFromStore, createdRequests, pairingReplies>>

\* readAllowFromStore("feishu").catch(() => []) settles; the pipeline goes on.
ReadStoreSettles(r, ok) ==
  /\ runs[r].pc = "readStore"
  /\ LET f1 == [runs[r] EXCEPT !.pc = "run",
                  !.storeRead = IF ok THEN "ok" ELSE "failed",
                  !.storeAllowFrom = IF ok THEN allowFromStore ELSE <<>>]
         f2 == Gates(cfg, f1)
     IN  \E buildThrows \in BuildOutcomes(f2) :
           runs' = [runs EXCEPT ![r] = BuildAndDispatch(cfg, f2, buildThrows)]
  /\ UNCHANGED <<allowCheck, groupCheck, cfg, startsLeft, clients, activeClients, handles, status,
                 pendingPairing, allowFromStore, createdRequests, pairingReplies>>

\* The pairing reply sent whether or not the request was newly created.
C7_AfterUpsertAlwaysReplies(f, created) ==
  LET g == logVerbose([f EXCEPT !.created = Some(created)], "log.pairingRequest")
      to == PrefixOpenId \o SenderIdOf(f.ev[1])
  IN  IF SendRejectsTarget(to)
        THEN Return(logVerbose(DidTo(g, "sendRejected", to),
                               "log.pairingReplyFailed"), "dmPairing")
        ELSE [DidTo(g, "sendFeishuText", to) EXCEPT !.pc = "pairSend"]

\* The pairing step taking every request for newly created.
C28_AfterUpsertTakesAllForNew(f, created) ==
  LET g == logVerbose([f EXCEPT !.created = Some(TRUE)], "log.pairingRequest")
      to == PrefixOpenId \o SenderIdOf(f.ev[1])
  IN  IF SendRejectsTarget(to)
        THEN Return(logVerbose(DidTo(g, "sendRejected", to),
                               "log.pairingReplyFailed"), "dmPairing")
        ELSE [DidTo(g, "sendFeishuText", to) EXCEPT !.pc = "pairSend"]

\* Lines 529-553 once upsertPairingRequest has returned {code, created}.
AfterUpsert(f, created) ==
  IF ~created THEN Return([f EXCEPT !.created = Some(FALSE)], "dmPairing")
  ELSE LET g == logVerbose([f EXCEPT !.created = Some(TRUE)], "log.pairingRequest")
           to == PrefixOpenId \o SenderIdOf(f.ev[1])
       IN  IF SendRejectsTarget(to)
             THEN Return(logVerbose(DidTo(g, "sendRejected", to),
                                    "log.pairingReplyFailed"), "dmPairing")
             ELSE [DidTo(g, "sendFeishuText", to) EXCEPT !.pc = "pairSend"]

\* How many pairing requests the store has created for a sender id.
Created(id) == IF id \in DOMAIN createdRequests THEN createdRequests[id] ELSE 0

\* upsertPairingRequest settles: it fails, or it reports created = true
\* exactly when the sender has no pending request.
UpsertSettles(r, ok) ==
  /\ runs[r].pc = "upsert"
  /\ LET id == SenderIdOf(runs[r].ev[1])
     IN  IF ok
           THEN /\ runs' = [runs EXCEPT ![r] =
                              AfterUpsert(runs[r], id \notin pendingPairing)]
                /\ pendingPairing' = pendingPairing \cup {id}
                /\ createdRequests' =
                     IF id \in pendingPairing THEN createdRequests
                     ELSE [x \in DOMAIN createdRequests \cup {id} |->
                             IF x = id THEN Created(id) + 1 ELSE createdRequests[x]]
           ELSE /\ runs' = [runs EXCEPT ![r] = Throw(runs[r])]
                /\ UNCHANGED <<pendingPairing, createdRequests>>
  /\ UNCHANGED <<allowCheck, groupCheck, cfg, startsLeft, clients, activeClients, handles, status,
                 allowFromStore, pairingReplies>>

\* How many pairing-code replies have been delivered to a sender id.
Replies(id) == IF id \in DOMAIN pairingReplies THEN pairingReplies[id] ELSE 0

\* The pairing-code send settles: statusSink on success, a verbose log line
\* on failure; the event is dropped either way.
PairingSendSettles(r, ok) ==
  /\ runs[r].pc = "pairSend"
  /\ LET id == SenderIdOf(runs[r].ev[1])
         to == PrefixOpenId \o id
     IN  IF ok
           THEN /\ runs' = [runs EXCEPT ![r] =
                     Return(Did(DidTo(runs[r], "sent", to),
                                "statusSink.lastOutboundAt"), "dmPairing")]
                /\ pairingReplies' =
                     [x \in DOMAIN pairingReplies \cup {id} |->
                        IF x = id THEN Replies(id) + 1 ELSE pairingReplies[x]]
           ELSE /\ runs' = [runs EXCEPT ![r] =
                     Return(logVerbose(DidTo(runs[r], "sendFailed", to),
                                       "log.pairingReplyFailed"), "dmPairing")]
                /\ UNCHANGED pairingReplies
  /\ UNCHANGED <<allowCheck, groupCheck, cfg, startsLeft, clients, activeClients, handles, status,
                 pendingPairing, allowFromStore, createdRequests>>

\* deliver with statusSink called before the send is awaited.
C15_DeliverStatusFirst(f, text, ok) ==
  LET to == PrefixChat \o ChatIdOf(f.ev[1])
  IN  IF Trim(text) = <<>>
        THEN [called |-> TRUE, text |-> text, to |-> None, sent |-> FALSE,
              status |-> FALSE, raised |-> FALSE]
      ELSE [called |-> TRUE, text |-> text,
            to |-> IF SendRejectsTarget(to) THEN None ELSE Some(to),
            sent |-> ~SendRejectsTarget(to) /\ ok, status |-> TRUE,
            raised |-> SendRejectsTarget(to) \/ ~ok]

\* deliver with the reply addressed to the sender, not to the conversation.
C14_DeliverToSender(f, text, ok) ==
  LET to == PrefixOpenId \o SenderIdOf(f.ev[1])
  IN  IF Trim(text) = <<>>
        THEN [called |-> TRUE, text |-> text, to |-> None, sent |-> FALSE,
              status |-> FALSE, raised |-> FALSE]
      ELSE IF SendRejectsTarget(to) \/ ~ok
        THEN [called |-> TRUE, text |-> text,
              to |-> IF SendRejectsTarget(to) THEN None ELSE Some(to),
              sent |-> FALSE, status |-> FALSE, raised |-> TRUE]
      ELSE [called |-> TRUE, text |-> text, to |-> Some(to), sent |-> TRUE,
            status |-> TRUE, raised |-> FALSE]

\* deliver(payload), lines 644-652: nothing for a blank text; else
\* sendFeishuText to the conversation and, once it has succeeded, statusSink.
\* ok is the platform's answer to the request; raised says that the call
\* has rejected.
deliver(f, text, ok) ==
  LET to == PrefixChat \o ChatIdOf(f.ev[1])
  IN  IF Trim(text) = <<>>
        THEN [called |-> TRUE, text |-> text, to |-> None, sent |-> FALSE,
              status |-> FALSE, raised |-> FALSE]
      ELSE IF SendRejectsTarget(to) \/ ~ok
        THEN [called |-> TRUE, text |-> text,
              to |-> IF SendRejectsTarget(to) THEN None ELSE Some(to),
              sent |-> FALSE, status |-> FALSE, raised |-> TRUE]
      ELSE [called |-> TRUE, text |-> text, to |-> Some(to), sent |-> TRUE,
            status |-> TRUE, raised |-> FALSE]

\* The dispatcher calls deliver with a payload, any number of times while it
\* runs; a deliver that rejects is reported through onError.
Deliver(r, text, ok) ==
  /\ runs[r].pc = "dispatch"
  /\ LET d == deliver(runs[r], text, ok)
         f == [runs[r] EXCEPT !.lastDeliver = d]
     IN  runs' = [runs EXCEPT ![r] =
                    IF d.raised THEN Err(f, "reply failed") ELSE f]
  /\ UNCHANGED <<allowCheck, groupCheck, cfg, startsLeft, clients, activeClients, handles, status,
                 pendingPairing, allowFromStore, createdRequests, pairingReplies>>

\* dispatchReplyWithBufferedBlockDispatcher settles: the pipeline returns, or
\* the rejection leaves the pipeline and reaches the handler's catch.
DispatchSettles(r, ok) ==
  /\ runs[r].pc = "dispatch"
  /\ runs' = [runs EXCEPT ![r] =
                IF ok THEN Return(runs[r], "dispatched") ELSE Throw(runs[r])]
  /\ UNCHANGED <<allowCheck, groupCheck, cfg, startsLeft, clients, activeClients, handles, status,
                 pendingPairing, allowFromStore, createdRequests, pairingReplies>>

\* The detached recordSessionMetaFromInbound settles; its .catch logs.
RecordingSettles(r, ok) ==
  /\ runs[r].rec = "pending"
  /\ runs' = [runs EXCEPT ![r] =
                IF ok THEN [runs[r] EXCEPT !.rec = "ok"]
                ELSE [Err(runs[r], "failed updating session meta") EXCEPT
                        !.rec = "failed"]]
  /\ UNCHANGED <<allowCheck, groupCheck, cfg, startsLeft, clients, activeClients, handles, status,
                 pendingPairing, allowFromStore, createdRequests, pairingReplies>>

\* The invocation is over and nothing of it is kept.
Discard(r) ==
  /\ runs[r].pc = "done"
  /\ runs[r].rec # "pending"
  /\ runs' = [runs EXCEPT ![r] = IdleRun]
  /\ UNCHANGED <<allowCheck, groupCheck, cfg, startsLeft, clients, activeClients, handles, status,
                 pendingPairing, allowFromStore, createdRequests, pairingReplies>>

(***************************************************************************)
(* Actions: the pairing store's operator                                   *)
(***************************************************************************)
\* The operator approves a pending pairing request: the id joins the store
\* allow-list and the request is consumed.
Approve(id) ==
  /\ id \in pendingPairing
  /\ \A i \in 1..Len(allowFromStore) : allowFromStore[i] # id
  /\ allowFromStore' = Append(allowFromStore, id)
  /\ pendingPairing' = pendingPairing \ {id}
  /\ UNCHANGED <<allowCheck, groupCheck, cfg, startsLeft, clients, activeClients, handles, status,
                 createdRequests, pairingReplies, runs>>

(***************************************************************************)
(* Actions: the account's lifecycle                                        *)
(***************************************************************************)
\* resolveWsClientConfig: appId and appSecret, trimmed.
HasCredentials(c) ==
  /\ Trim(Coalesce(c.account.appId, <<>>)) # <<>>
  /\ Trim(Coalesce(c.account.appSecret, <<>>)) # <<>>

\* gateway.startAccount: the status is set to running, then
\* startFeishuMonitor throws on missing credentials, or creates a client,
\* registers it under the account id and starts it.
StartAccount ==
  /\ startsLeft > 0
  /\ startsLeft' = startsLeft - 1
  /\ status' = [status EXCEPT !.running = TRUE]
  /\ IF HasCredentials(cfg)
       THEN /\ clients' = Append(clients, [running |-> TRUE])
            /\ activeClients' = Some(Len(clients) + 1)
            /\ handles' = Append(handles, [called |-> FALSE, aborted |-> FALSE])
       ELSE UNCHANGED <<clients, activeClients, handles>>
  /\ UNCHANGED <<allowCheck, groupCheck, cfg, pendingPairing, allowFromStore, createdRequests, pairingReplies, runs>>

\* stopClient: the client registered under the account id is stopped and
\* unregistered.
stopClient(cs) ==
  IF activeClients = None THEN cs
  ELSE [cs EXCEPT ![activeClients[1]].running = FALSE]

\* The closure startAccount returned: unregister, then running = false.
StopAccount(h) ==
  /\ h \in 1..Len(handles)
  /\ ~handles[h].called
  /\ handles' = [handles EXCEPT ![h].called = TRUE]
  /\ clients' = stopClient(clients)
  /\ activeClients' = None
  /\ status' = [status EXCEPT !.running = FALSE]
  /\ UNCHANGED <<allowCheck, groupCheck, cfg, startsLeft, pendingPairing, allowFromStore,
                 createdRequests, pairingReplies, runs>>

\* The abort signal handed to a start fires: its listener, unless the
\* returned closure has removed it, runs stopClient.  The status is left
\* as it is.
Abort(h) ==
  /\ h \in 1..Len(handles)
  /\ ~handles[h].aborted
  /\ handles' = [handles EXCEPT ![h].aborted = TRUE]
  /\ IF handles[h].called
       THEN UNCHANGED <<clients, activeClients>>
       ELSE clients' = stopClient(clients) /\ activeClients' = None
  /\ UNCHANGED <<allowCheck, groupCheck, cfg, startsLeft, status, pendingPairing, allowFromStore,
                 createdRequests, pairingReplies, runs>>

(***************************************************************************)
(* The inputs: sender ids, conversations, messages, configurations         *)
(***************************************************************************)
U1 == <<"U","1">>

U2 == <<"U","2">>

G1 == <<"g","1">>

G2 == <<"g","2">>

BotOpenId == <<"B","0">>

BotUserId == <<"b","u">>

UserType == <<"u","s","e","r">>

GroupType == <<"g","r","o","u","p">>

Hi == <<"h","i">>

\* {"text":"hi"}
JsonHi == JsonTextOpen \o Hi \o <<"\"","}">>

\* {"text":"<at user_id=\"ID\">x</at> hi"}
JsonAt(id) ==
  JsonTextOpen \o AtMarker \o MentionMarker(id) \o <<">","x","<","/","a","t",">"," ">>
    \o Hi \o <<"\"","}">>

SenderWith(type, openId) ==
  Some([sender_type |-> type,
        sender_id |-> [open_id |-> openId, user_id |-> None, union_id |-> None]])

User1 == SenderWith(Some(UserType), Some(U1))

User2 == SenderWith(Some(UserType), Some(U2))

\* A sender without any id.
Anonymous == SenderWith(Some(UserType), None)

\* A sender of kind bot, and the bot itself.
BotSenders ==
  { SenderWith(Some(<<"B","o","t"," ">>), Some(U2)),
    SenderWith(Some(UserType), Some(BotOpenId)) }

MentionOf(name, openId, userId) ==
  [name |-> name, open_id |-> openId, user_id |-> userId]

Plain == [content |-> StringContent(Hi), mentions |-> None]

\* A message that mentions somebody who is not the bot.
OtherMention ==
  [content |-> StringContent(Hi),
   mentions |-> Some(<<MentionOf(Some(<<"x">>), Some(U2), None)>>)]

\* A message that mentions the bot by its open id.
BotMention ==
  [content |-> StringContent(Hi),
   mentions |-> Some(<<MentionOf(None, Some(BotOpenId), None)>>)]

\* The pairs of content and structured mentions a message carries.
Shapes ==
  { Plain,
    [content |-> StringContent(JsonHi), mentions |-> Some(<<>>)],
    OtherMention,
    BotMention,
    [content |-> StringContent(JsonAt(BotUserId)), mentions |-> None],
    [content |-> StringContent(JsonAt(<<"x">>)), mentions |-> None] }

MessageWith(chatId, chatType, shape) ==
  Some([chat_id |-> chatId, chat_type |-> chatType,
        content |-> shape.content, mentions |-> shape.mentions])

EventWith(chatId, chatType, shape, sender) ==
  [message |-> MessageWith(chatId, chatType, shape), sender |-> sender]

GroupEvents ==
  { EventWith(Some(G1), Some(GroupType), sh, User1) : sh \in Shapes }
  \cup { EventWith(Some(G1), Some(GroupType), Plain, User2),
         EventWith(Some(G1), None, Plain, Anonymous) }

DirectEvents ==
  { EventWith(Some(G1), Some(<<"P","2","P">>), Plain, User1),
    EventWith(Some(G1), Some(P2P), Plain, Anonymous) }

\* Events of bots, and malformed events: no message, a blank conversation
\* id, a blank body, a blank body sent by a bot.
FilteredEvents ==
  { EventWith(Some(G1), Some(t), Plain, s) : t \in {P2P, GroupType}, s \in BotSenders }
  \cup { [message |-> None, sender |-> User1],
         EventWith(Some(<<" ">>), Some(GroupType), Plain, User1),
         EventWith(Some(G1), Some(P2P),
                   [content |-> StringContent(<<" ">>), mentions |-> None], User1),
         EventWith(Some(G1), Some(GroupType),
                   [content |-> NoContent, mentions |-> None], User1),
         EventWith(Some(G1), Some(P2P),
                   [content |-> StringContent(<<" ">>), mentions |-> None],
                   SenderWith(Some(Bot), Some(U2))) }

\* What the core's command predicates answer for the body of an event.
CoreAnswers ==
  [shouldComputeAuth : BOOLEAN, hasControlCommand : BOOLEAN,
   isControlCommand : BOOLEAN]

NoCommand ==
  [shouldComputeAuth |-> FALSE, hasControlCommand |-> FALSE,
   isControlCommand |-> FALSE]

Command ==
  [shouldComputeAuth |-> TRUE, hasControlCommand |-> TRUE,
   isControlCommand |-> TRUE]

Input(ev, core) == [ev |-> ev, core |-> core]

EntryWith(enabled, allow, requireMention, users) ==
  [enabled |-> enabled, allow |-> allow, requireMention |-> requireMention,
   users |-> users, systemPrompt |-> None]

GroupEntries ==
  { EntryWith(None, None, None, None),
    EntryWith(Some(FALSE), None, None, None),
    EntryWith(None, Some(FALSE), None, None),
    EntryWith(None, None, Some(TRUE), None),
    EntryWith(None, None, Some(FALSE), None),
    EntryWith(None, None, None, Some(<<PrefixUser \o <<"u","1">>>>)),
    EntryWith(None, None, Some(FALSE), Some(<<U2, Star>>)),
    EntryWith(Some(TRUE), Some(TRUE), None, Some(<<>>)) }

OneGroup(key, e) == Some([k \in {key} |-> e])

GroupMaps ==
  { None, Some(<<>>) }
  \cup { OneGroup(G1, e) : e \in GroupEntries }
  \cup { OneGroup(Star, e) :
           e \in { EntryWith(None, None, None, None),
                   EntryWith(Some(FALSE), None, None, None),
                   EntryWith(None, None, Some(FALSE), Some(<<U2>>)) } }
  \cup { OneGroup(G2, EntryWith(None, None, None, None)),
         Some([k \in {G1, Star} |->
                 IF k = G1 THEN EntryWith(None, None, Some(FALSE), None)
                 ELSE EntryWith(Some(FALSE), None, None, None)]) }

DmWith(enabled, policy, allowFrom) ==
  Some([enabled |-> enabled, policy |-> policy, allowFrom |-> allowFrom])

BaseAccount ==
  [accountId |-> "default", appId |-> Some(<<"a">>), appSecret |-> Some(<<"s">>),
   allowBots |-> None, botOpenId |-> Some(BotOpenId), botUserId |-> Some(BotUserId),
   botName |-> None, groupPolicy |-> None, groups |-> None,
   requireMention |-> None, dm |-> None]

BaseConfig ==
  [account |-> BaseAccount, defaultGroupPolicy |-> None, useAccessGroups |-> None,
   allowTextCommands |-> TRUE, verbose |-> TRUE]

\* The account of the configurations that vary the group settings: direct
\* messages are switched off.
GroupAccount == [BaseAccount EXCEPT !.dm = DmWith(None, Some("disabled"), None)]

GroupBaseConfig == [BaseConfig EXCEPT !.account = GroupAccount]

\* Configurations that vary the group policy and the group map.
GroupPolicyConfigs ==
  { [GroupBaseConfig EXCEPT !.account.groupPolicy = gp, !.account.groups = gm] :
      gp \in {Some("allowlist"), Some("open"), Some("disabled")},
      gm \in GroupMaps }
  \cup { [GroupBaseConfig EXCEPT !.account.groups = gm] :
           gm \in {None, Some(<<>>), OneGroup(G1, EntryWith(None, None, None, None))} }

\* Configurations that vary the mention requirement and the command settings.
MentionConfigs ==
  { [GroupBaseConfig EXCEPT !.account.groupPolicy = Some("open"),
                            !.account.requireMention = rm,
                            !.useAccessGroups = uag,
                            !.allowTextCommands = atc] :
      rm \in {None, Some(TRUE), Some(FALSE)},
      uag \in {None, Some(FALSE)},
      atc \in BOOLEAN }
  \cup
  { [GroupBaseConfig EXCEPT !.account.groupPolicy = Some("open"),
                            !.account.groups =
                               OneGroup(G1, EntryWith(None, None, None, Some(<<U1>>))),
                            !.account.requireMention = rm] :
      rm \in {None, Some(TRUE), Some(FALSE)} }

\* Configurations that vary the direct-message settings.
DmConfigs ==
  { [BaseConfig EXCEPT !.account.dm = DmWith(None, pol, af)] :
      pol \in {Some("pairing"), Some("allowlist"), Some("open")},
      af \in {None, Some(<<Star>>),
              Some(<<U2, <<" ">> \o PrefixOpenId \o <<"u","1">>>>)} }
  \cup { [BaseConfig EXCEPT !.account.dm = DmWith(None, pol, None),
                            !.useAccessGroups = Some(FALSE)] :
      pol \in {Some("allowlist"), Some("open")} }
  \cup { [BaseConfig EXCEPT !.account.dm = DmWith(en, pol, Some(<<U1>>))] :
      en \in {None, Some(FALSE)},
      pol \in {Some("disabled"), Some("open"), Some("allowlist")} }

\* Configurations off the main path: no credentials, quiet logging, bots
\* allowed, a default group policy of the host.
OtherConfigs ==
  { [BaseConfig EXCEPT !.account.appSecret = Some(<<" ">>)],
    [BaseConfig EXCEPT !.verbose = FALSE],
    [GroupBaseConfig EXCEPT !.verbose = FALSE, !.account.groupPolicy = Some("open")],
    [GroupBaseConfig EXCEPT !.account.allowBots = Some(TRUE),
                            !.account.groupPolicy = Some("open")],
    [BaseConfig EXCEPT !.account.allowBots = Some(TRUE),
                       !.account.dm = DmWith(None, Some("open"), None)],
    [GroupBaseConfig EXCEPT !.defaultGroupPolicy = Some("open"),
                            !.account.allowBots = Some(FALSE)],
    [GroupBaseConfig EXCEPT !.defaultGroupPolicy = Some("disabled")] }

Configs == GroupPolicyConfigs \cup MentionConfigs \cup DmConfigs \cup OtherConfigs

\* The group inputs explored under the configurations that vary the
\* mention requirement and the command settings: two events with every
\* answer of the command predicates, the others with two answers.
CommandEvents ==
  { EventWith(Some(G1), Some(GroupType), sh, User1) : sh \in {Plain, OtherMention} }

GroupInputs ==
  { Input(ev, core) : ev \in CommandEvents, core \in CoreAnswers }
  \cup { Input(ev, core) : ev \in GroupEvents, core \in {NoCommand, Command} }

\* The group inputs explored under the other configurations.
GateInputs ==
  { Input(ev, NoCommand) :
      ev \in { EventWith(Some(G1), Some(GroupType), BotMention, User1),
               EventWith(Some(G1), Some(GroupType), OtherMention, User1),
               EventWith(Some(G1), Some(GroupType), Plain, User2),
               EventWith(Some(G1), None, Plain, Anonymous),
               EventWith(Some(G2), Some(GroupType), BotMention, User2) } }

\* Of the command predicates only shouldComputeCommandAuthorized bears on a
\* direct event.
DirectInputs == { Input(ev, core) : ev \in DirectEvents, core \in {NoCommand, Command} }

\* The traffic explored under a configuration: direct inputs unless direct
\* messages are switched off, group inputs if they are, and in both cases
\* the filtered events and one event of the other kind.
Traffic(c) ==
  IF DmPolicyOf(c) # "disabled"
    THEN DirectInputs
           \cup { Input(ev, NoCommand) :
                    ev \in FilteredEvents
                      \cup {EventWith(Some(G1), Some(GroupType), Plain, User1)} }
    ELSE (IF c \in MentionConfigs THEN GroupInputs ELSE GateInputs)
           \cup { Input(ev, NoCommand) :
                    ev \in FilteredEvents
                      \cup {EventWith(Some(G1), Some(P2P), Plain, User1)} }

(***************************************************************************)
(* The specification                                                       *)
(***************************************************************************)
\* No call of isSenderAllowed is under observation.
NoAllowCheck == [senderId |-> <<>>, allowFrom |-> <<>>, result |-> None]

NoGroupCheck ==
  [groupId |-> <<>>, groupName |-> None, groups |-> None, groupPolicy |-> None,
   resolved |-> None, outcome |-> None]

\* How many times the host starts the account.
MaxStarts == 1

\* The store's allow-list as earlier approvals have left it: empty, or,
\* under the allowlist policy (which never adds to it), naming U1.
StoresAtStart(c) ==
  IF DmPolicyOf(c) = "allowlist" THEN {<<>>, <<U1>>} ELSE {<<>>}

Init ==
  /\ cfg \in Configs
  /\ startsLeft = MaxStarts
  /\ clients = <<>>
  /\ activeClients = None
  /\ handles = <<>>
  /\ status = [running |-> FALSE]
  /\ pendingPairing = {}
  /\ allowFromStore \in StoresAtStart(cfg)
  /\ createdRequests = [x \in {} |-> 0]
  /\ pairingReplies = [x \in {} |-> 0]
  /\ runs = [r \in {1} |-> IdleRun]
  /\ allowCheck = NoAllowCheck
  /\ groupCheck = NoGroupCheck

Next ==
  \/ StartAccount
  \/ \E h \in 1..Len(handles) : StopAccount(h)
  \/ \E r \in Slots, in \in Traffic(cfg) : Receive(r, in.ev, in.core)
  \/ \E r \in Slots, ok \in BOOLEAN : ReadStoreSettles(r, ok)
  \/ \E r \in Slots, ok \in BOOLEAN : UpsertSettles(r, ok)
  \/ \E r \in Slots, ok \in BOOLEAN : PairingSendSettles(r, ok)
  \/ \E r \in Slots, text \in {<<>>, <<" ">>, Hi}, ok \in BOOLEAN : Deliver(r, text, ok)
  \/ \E r \in Slots, ok \in BOOLEAN : DispatchSettles(r, ok)
  \/ \E r \in Slots, ok \in BOOLEAN : RecordingSettles(r, ok)
  \/ \E r \in Slots : Discard(r)
  \/ \E id \in pendingPairing : Approve(id)

Spec == Init /\ [][Next]_vars

(***************************************************************************)
(* The account started more than once: the host may call startAccount      *)
(* again without having called the stop closure of the earlier start, and  *)
(* the abort signal of a start may fire.                                   *)
(***************************************************************************)
\* How many times the host starts the account under RestartSpec.
MaxRestarts == 2

RestartInit ==
  /\ cfg \in { [BaseConfig EXCEPT !.account.appSecret = Some(<<" ">>)],
               [GroupBaseConfig EXCEPT !.account.allowBots = Some(TRUE),
                                       !.account.groupPolicy = Some("open")],
               [BaseConfig EXCEPT !.account.allowBots = Some(TRUE),
                                  !.account.dm = DmWith(None, Some("open"), None)] }
  /\ startsLeft = MaxRestarts
  /\ clients = <<>>
  /\ activeClients = None
  /\ handles = <<>>
  /\ status = [running |-> FALSE]
  /\ pendingPairing = {}
  /\ allowFromStore = <<>>
  /\ createdRequests = [x \in {} |-> 0]
  /\ pairingReplies = [x \in {} |-> 0]
  /\ runs = [r \in {1} |-> IdleRun]
  /\ allowCheck = NoAllowCheck
  /\ groupCheck = NoGroupCheck

\* The pairing store takes no step: none of the configurations above uses
\* the pairing policy.
RestartNext ==
  \/ StartAccount
  \/ \E h \in 1..Len(handles) : StopAccount(h)
  \/ \E h \in 1..Len(handles) : Abort(h)
  \/ \E r \in Slots, in \in Traffic(cfg) : Receive(r, in.ev, in.core)
  \/ \E r \in Slots, ok \in BOOLEAN : ReadStoreSettles(r, ok)
  \/ \E r \in Slots, text \in {<<" ">>, Hi}, ok \in BOOLEAN : Deliver(r, text, ok)
  \/ \E r \in Slots, ok \in BOOLEAN : DispatchSettles(r, ok)
  \/ \E r \in Slots, ok \in BOOLEAN : RecordingSettles(r, ok)
  \/ \E r \in Slots : Discard(r)

RestartSpec == RestartInit /\ [][RestartNext]_vars

(***************************************************************************)
(* The gates of the pipeline on their own: the same accounts and events,   *)
(* the pipeline followed from the handler to the point where the event is  *)
(* dropped or handed to the dispatcher.  What the dispatcher then does     *)
(* with it (its calls of deliver, the detached recording) is left out.     *)
(***************************************************************************)
GateNext ==
  \/ StartAccount
  \/ \E h \in 1..Len(handles) : StopAccount(h)
  \/ \E r \in Slots, in \in Traffic(cfg) : Receive(r, in.ev, in.core)
  \/ \E r \in Slots, ok \in BOOLEAN : ReadStoreSettles(r, ok)
  \/ \E r \in Slots, ok \in BOOLEAN : UpsertSettles(r, ok)
  \/ \E r \in Slots, ok \in BOOLEAN : PairingSendSettles(r, ok)
  \/ \E r \in Slots, ok \in BOOLEAN : DispatchSettles(r, ok)
  \/ \E r \in Slots : Discard(r)
  \/ \E id \in pendingPairing : Approve(id)

GateSpec == Init /\ [][GateNext]_vars

(***************************************************************************)
(* Concurrent direct events of one sender under the pairing policy: the    *)
(* host runs the handler for several events of U1 at once, each in a slot  *)
(* of its own; the steps of the invocations interleave at their awaits.    *)
(* Nobody approves the request, so U1 stays unknown.                       *)
(***************************************************************************)
\* How many events of the sender the host processes at once.
MaxRuns == 2

PairInit ==
  /\ cfg = BaseConfig
  /\ startsLeft = 1
  /\ clients = <<>>
  /\ activeClients = None
  /\ handles = <<>>
  /\ status = [running |-> FALSE]
  /\ pendingPairing = {}
  /\ allowFromStore = <<>>
  /\ createdRequests = [x \in {} |-> 0]
  /\ pairingReplies = [x \in {} |-> 0]
  /\ runs = [r \in 1..MaxRuns |-> IdleRun]
  /\ allowCheck = NoAllowCheck
  /\ groupCheck = NoGroupCheck

PairNext ==
  \/ StartAccount
  \/ \E r \in Slots, in \in {i \in DirectInputs : SenderIdOf(i.ev) = U1} :
        Receive(r, in.ev, in.core)
  \/ \E r \in Slots, ok \in BOOLEAN : ReadStoreSettles(r, ok)
  \/ \E r \in Slots, ok \in BOOLEAN : UpsertSettles(r, ok)
  \/ \E r \in Slots, ok \in BOOLEAN : PairingSendSettles(r, ok)

PairSpec == PairInit /\ [][PairNext]_vars

(***************************************************************************)
(* isSenderAllowed on its own: the arguments of one call are drawn from    *)
(* sender ids and allow-lists that differ in letter case, whitespace and   *)
(* prefixes, and the call computes its result.                             *)
(***************************************************************************)
\* Sender ids as a caller may pass them: blank, padded, in either case,
\* with a prefix of their own, the wildcard token.
SenderIds ==
  { <<>>, <<" ">>, U1, <<"u","1">>, U2, <<" ">> \o U1, U1 \o <<" ">>,
    <<"\t">> \o U1 \o <<"\n">>, Star, PrefixUser \o U1 }

\* The prefixes of /^(feishu|lark|user|open_id):/i as they may be written.
PrefixForms ==
  { AllowPrefixes[i] : i \in 1..Len(AllowPrefixes) }
    \cup { <<"U","s","e","r",":">>, <<"O","P","E","N","_","I","D",":">> }

Padding == { <<>>, <<" ">> }

\* Entries `prefix + id`, padded or not.
PrefixedEntries ==
  { w1 \o p \o id \o w2 :
      w1 \in Padding, p \in PrefixForms, id \in SenderIds, w2 \in Padding }

\* Entries without a recognized prefix.
PlainEntries ==
  { <<>>, <<" ">>, Star, <<" ">> \o Star, U1, <<" ">> \o <<"u","1">> \o <<" ">>, U2,
    PrefixChat \o U1, PrefixOpen \o U1 }

AllowLists ==
  { <<>> }
    \cup { <<e>> : e \in PrefixedEntries \cup PlainEntries }
    \cup { <<e, Star>> : e \in PlainEntries }
    \cup { <<Star, e>> : e \in PlainEntries }
    \cup { <<U2, e>> : e \in PlainEntries }

AllowInit ==
  /\ cfg = BaseConfig
  /\ startsLeft = 0
  /\ clients = <<>>
  /\ activeClients = None
  /\ handles = <<>>
  /\ status = [running |-> FALSE]
  /\ pendingPairing = {}
  /\ allowFromStore = <<>>
  /\ createdRequests = [x \in {} |-> 0]
  /\ pairingReplies = [x \in {} |-> 0]
  /\ runs = [r \in {1} |-> IdleRun]
  /\ allowCheck \in [senderId : SenderIds, allowFrom : AllowLists, result : {None}]
  /\ groupCheck = NoGroupCheck

\* The call returns.
CallIsSenderAllowed ==
  /\ allowCheck.result = None
  /\ allowCheck' = [allowCheck EXCEPT
                      !.result = Some(isSenderAllowed(allowCheck.senderId,
                                                      allowCheck.allowFrom))]
  /\ UNCHANGED <<groupCheck, cfg, startsLeft, clients, activeClients, handles,
                 status, pendingPairing, allowFromStore, createdRequests,
                 pairingReplies, runs>>

AllowNext == CallIsSenderAllowed

AllowSpec == AllowInit /\ [][AllowNext]_vars

(***************************************************************************)
(* resolveGroupConfig and the group gate on their own: a conversation id,  *)
(* a conversation name and a group map are drawn, the entry is resolved,   *)
(* and a group event of the conversation is put to the group gate of an    *)
(* account with that map.                                                  *)
(***************************************************************************)
GroupKeys == {G1, <<"A","b">>, <<"a","b">>, <<" ","a","b"," ">>, Star}

\* The entry under a key carries the key as its system prompt, so that the
\* entries of a map are told apart.
EntryUnder(k) == [EntryWith(None, None, None, None) EXCEPT !.systemPrompt = Some(k)]

ResolveInit ==
  /\ cfg = BaseConfig
  /\ startsLeft = 0
  /\ clients = <<>>
  /\ activeClients = None
  /\ handles = <<>>
  /\ status = [running |-> FALSE]
  /\ pendingPairing = {}
  /\ allowFromStore = <<>>
  /\ createdRequests = [x \in {} |-> 0]
  /\ pairingReplies = [x \in {} |-> 0]
  /\ runs = [r \in {1} |-> IdleRun]
  /\ allowCheck = NoAllowCheck
  /\ groupCheck \in [groupId : {G1, <<"a","b">>},
                     groupName : {None, Some(<<>>), Some(<<"A","b">>),
                                  Some(<<"a","b">>), Some(<<" ","A","b"," ">>)},
                     groups : {None} \cup { Some([k \in D |-> EntryUnder(k)]) :
                                              D \in SUBSET GroupKeys },
                     groupPolicy : {None, Some("allowlist"), Some("open")},
                     resolved : {None}, outcome : {None}]

CallResolveGroupConfig ==
  /\ groupCheck.resolved = None
  /\ groupCheck' = [groupCheck EXCEPT
                      !.resolved = Some(resolveGroupConfig(groupCheck.groupId,
                                                           groupCheck.groupName,
                                                           groupCheck.groups))]
  /\ UNCHANGED <<allowCheck, cfg, startsLeft, clients, activeClients, handles,
                 status, pendingPairing, allowFromStore, createdRequests,
                 pairingReplies, runs>>

\* The group gate on a group event of the conversation, from an ordinary
\* user, under an account with the drawn policy and map.
CallGroupGate ==
  /\ groupCheck.outcome = None
  /\ LET c == [GroupBaseConfig EXCEPT !.account.groupPolicy = groupCheck.groupPolicy,
                                      !.account.groups = groupCheck.groups]
         ev == EventWith(Some(groupCheck.groupId), Some(GroupType), Plain, User1)
     IN  groupCheck' = [groupCheck EXCEPT
                          !.outcome = Some(GroupGate(c, NewRun(ev, NoCommand)).outcome)]
  /\ UNCHANGED <<allowCheck, cfg, startsLeft, clients, activeClients, handles,
                 status, pendingPairing, allowFromStore, createdRequests,
                 pairingReplies, runs>>

ResolveNext == CallResolveGroupConfig \/ CallGroupGate

ResolveSpec == ResolveInit /\ [][ResolveNext]_vars


(***************************************************************************)
(* Observations on an invocation of the handler                            *)
(***************************************************************************)
\* The invocation handles a well-formed event of a group conversation.
GroupRun(f) == f.pc # "idle" /\ f.ev[1].message # None /\ IsGroupOf(f.ev[1])

\* The invocation handles a well-formed event of a direct conversation.
DirectRun(f) == f.pc # "idle" /\ f.ev[1].message # None /\ ~IsGroupOf(f.ev[1])

\* The invocation has evaluated the mention gate.
AtMentionGate(f) == GroupRun(f) /\ "resolveMentionGating" \in Ops(f)

DispatcherInvoked(f) == "dispatchReply" \in Ops(f)

\* The body has a control command, text commands are allowed and
\* commandAuthorized is true.
CommandBypass(f) ==
  cfg.allowTextCommands /\ f.core[1].hasControlCommand
    /\ f.commandAuthorized = Some(TRUE)

WasMentioned(f) == MentionInfoOf(cfg, f.ev[1]).wasMentioned

CanDetectMention(f) == MentionInfoOf(cfg, f.ev[1]).canDetectMention

(***************************************************************************)
(* The mention gate                                                        *)
(***************************************************************************)
\* C1: a group event with requireMention resolved to true, the bot not
\* mentioned, mention detection possible and no authorized control-command
\* bypass never reaches the dispatcher; if it comes as far as the mention
\* gate, the gate skips it with effectiveWasMentioned false and the pipeline
\* returns.
C1_MentionRequiredSkips ==
  \A r \in Slots :
    LET f == runs[r]
    IN  (GroupRun(f) /\ RequireMentionOf(cfg, f.ev[1]) /\ ~WasMentioned(f)
           /\ CanDetectMention(f) /\ ~CommandBypass(f))
          => /\ ~DispatcherInvoked(f)
             /\ f.ctx = None
             /\ f.pc = "done"
             /\ AtMentionGate(f)
                  => f.outcome = "mention" /\ f.effectiveWasMentioned = Some(FALSE)

\* A message that mentions somebody else and carries a control command its
\* sender is not authorized for has been skipped at the mention gate.
C1_Witness ==
  \E r \in Slots :
    LET f == runs[r]
    IN  /\ AtMentionGate(f) /\ RequireMentionOf(cfg, f.ev[1])
        /\ ~WasMentioned(f) /\ CanDetectMention(f)
        /\ f.core[1].hasControlCommand /\ f.commandAuthorized = Some(FALSE)
        /\ f.outcome = "mention"

\* C2 as stated: with requireMention true, the bot not mentioned and mention
\* detection impossible, the mention gate never skips and
\* effectiveWasMentioned is false.
C2_FailOpenAsStated ==
  \A r \in Slots :
    LET f == runs[r]
    IN  (AtMentionGate(f) /\ RequireMentionOf(cfg, f.ev[1]) /\ ~WasMentioned(f)
           /\ ~CanDetectMention(f))
          => f.outcome # "mention" /\ f.effectiveWasMentioned = Some(FALSE)

\* C2, amended: with requireMention true, the bot not mentioned and mention
\* detection impossible, the mention gate never skips; effectiveWasMentioned
\* is false unless the body has a control command, text commands are allowed
\* and commandAuthorized is true, and then it is true.
C2_FailOpen ==
  \A r \in Slots :
    LET f == runs[r]
    IN  (AtMentionGate(f) /\ RequireMentionOf(cfg, f.ev[1]) /\ ~WasMentioned(f)
           /\ ~CanDetectMention(f))
          => /\ f.outcome # "mention"
             /\ f.effectiveWasMentioned = Some(CommandBypass(f))

\* A plain message without a control command has passed the mention gate
\* unmentioned and reached the dispatcher.
C2_Witness ==
  \E r \in Slots :
    LET f == runs[r]
    IN  /\ AtMentionGate(f) /\ RequireMentionOf(cfg, f.ev[1])
        /\ ~WasMentioned(f) /\ ~CanDetectMention(f) /\ ~CommandBypass(f)
        /\ f.effectiveWasMentioned = Some(FALSE)
        /\ DispatcherInvoked(f)

\* C3: with requireMention true and the bot not mentioned, a body with a
\* control command, text commands allowed and commandAuthorized true passes
\* the mention gate with effectiveWasMentioned true, whatever
\* canDetectMention is, and the context handed to the dispatcher carries
\* WasMentioned = true.
C3_CommandBypass ==
  \A r \in Slots :
    LET f == runs[r]
    IN  (AtMentionGate(f) /\ RequireMentionOf(cfg, f.ev[1]) /\ ~WasMentioned(f)
           /\ CommandBypass(f))
          => /\ f.outcome \in {"none", "dispatched", "failed"}
             /\ f.effectiveWasMentioned = Some(TRUE)
             /\ DispatcherInvoked(f)
                  => f.ctx # None /\ f.ctx[1].WasMentioned = Some(TRUE)

\* An authorized control command in a message that mentions somebody else
\* has reached the dispatcher.
C3_Witness ==
  \E r \in Slots :
    LET f == runs[r]
    IN  /\ AtMentionGate(f) /\ RequireMentionOf(cfg, f.ev[1])
        /\ ~WasMentioned(f) /\ CommandBypass(f) /\ CanDetectMention(f)
        /\ DispatcherInvoked(f)
        /\ f.ctx[1].WasMentioned = Some(TRUE)

\* requireMention resolves to false: the group entry says so, or it says
\* nothing and the account says so.
RequireMentionOff(c, ev) ==
  LET e == GroupEntryOf(c, ev)
  IN  IF e # None /\ e[1].requireMention # None
        THEN e[1].requireMention = Some(FALSE)
        ELSE c.account.requireMention = Some(FALSE)

\* C4: with requireMention resolved to false the mention gate never skips,
\* and effectiveWasMentioned equals wasMentioned.
C4_NoMentionRequired ==
  \A r \in Slots :
    LET f == runs[r]
    IN  (AtMentionGate(f) /\ RequireMentionOff(cfg, f.ev[1]))
          => /\ f.outcome # "mention"
             /\ f.effectiveWasMentioned = Some(WasMentioned(f))

\* Under a group entry that switches requireMention off, a message that
\* mentions somebody else has passed the mention gate unmentioned.
C4_Witness ==
  \E r \in Slots :
    LET f == runs[r]
    IN  /\ AtMentionGate(f) /\ RequireMentionOff(cfg, f.ev[1])
        /\ GroupEntryOf(cfg, f.ev[1]) # None
        /\ CanDetectMention(f) /\ ~WasMentioned(f)
        /\ f.effectiveWasMentioned = Some(FALSE)
        /\ DispatcherInvoked(f)


(***************************************************************************)
(* The group gate                                                          *)
(***************************************************************************)
\* The sender is no bot for the bot-message filter.
NonBot(f) ==
  /\ SenderTypeOf(f.ev[1]) # Some(Bot)
  /\ ~(SenderIdOf(f.ev[1]) # <<>> /\ cfg.account.botOpenId # None
         /\ SenderIdOf(f.ev[1]) = Trim(cfg.account.botOpenId[1]))

\* The event has a conversation id and a body.
WellFormed(f) == ChatIdOf(f.ev[1]) # <<>> /\ RawBodyOf(f.ev[1]) # <<>>

\* C5: under groupPolicy = disabled a group event is dropped at the
\* group-policy check: the pipeline has returned, and nothing of the
\* downstream steps was called for the event (no sender match, no
\* should-compute predicate or command authorization, no store read, no
\* mention extraction or gate, no route resolution, no dispatcher); the only
\* entries of its trace are log lines of the bot filter and of the policy
\* check.
C5_GroupPolicyDisabledShortCircuits ==
  \A r \in Slots :
    LET f == runs[r]
    IN  (GroupRun(f) /\ GroupPolicyOf(cfg) = "disabled")
          => /\ f.pc = "done"
             /\ f.outcome \in {"malformed", "bot", "groupDisabled"}
             /\ (WellFormed(f) /\ f.outcome # "bot") => f.outcome = "groupDisabled"
             /\ Ops(f) \subseteq {"log.skipBot", "log.skipBotOpenId",
                                  "log.dropGroupDisabled"}
             /\ f.ctx = None
             /\ f.commandAuthorized = None
             /\ f.effectiveWasMentioned = None

\* A message that mentions the bot, from a member of the group's allow-list,
\* has been dropped at the policy check.
C5_Witness ==
  \E r \in Slots :
    LET f == runs[r]
    IN  /\ GroupRun(f) /\ GroupPolicyOf(cfg) = "disabled"
        /\ Len(GroupUsersOf(cfg, f.ev[1])) > 0
        /\ isSenderAllowed(SenderIdOf(f.ev[1]), GroupUsersOf(cfg, f.ev[1]))
        /\ WasMentioned(f)
        /\ f.outcome = "groupDisabled"

\* The account has no group map, or one without keys.
NoGroupKeys(c) == c.account.groups = None \/ DOMAIN c.account.groups[1] = {}

\* C6: under groupPolicy = allowlist and a group map that is absent or has
\* no keys, a group event is rejected at the group gate and the dispatcher
\* is never invoked for it.
C6_AllowlistWithoutGroupsRejects ==
  \A r \in Slots :
    LET f == runs[r]
    IN  (GroupRun(f) /\ GroupPolicyOf(cfg) = "allowlist" /\ NoGroupKeys(cfg))
          => /\ f.pc = "done"
             /\ f.outcome \in {"malformed", "bot", "groupNoAllowlist"}
             /\ (WellFormed(f) /\ f.outcome # "bot") => f.outcome = "groupNoAllowlist"
             /\ ~DispatcherInvoked(f)
             /\ f.ctx = None

\* Under an explicit allowlist policy and a group map without keys, a
\* message that mentions the bot has been rejected.
C6_Witness ==
  \E r \in Slots :
    LET f == runs[r]
    IN  /\ GroupRun(f) /\ cfg.account.groupPolicy = Some("allowlist")
        /\ cfg.account.groups # None /\ NoGroupKeys(cfg)
        /\ WasMentioned(f)
        /\ f.outcome = "groupNoAllowlist"

(***************************************************************************)
(* The DM gate                                                             *)
(***************************************************************************)
\* How many times the invocation has called sendFeishuText outside deliver.
SendCalls(f) ==
  Cardinality({ i \in 1..Len(f.trace) :
                  f.trace[i].op \in {"sendFeishuText", "sendRejected"} })

\* Under the pairing policy the sender is on neither the configured nor the
\* store allow-list.
UnknownSender(id) ==
  /\ DmPolicyOf(cfg) = "pairing"
  /\ ~DmDisabledFlag(cfg)
  /\ ~isSenderAllowed(id, ConfigAllowFromOf(cfg))
  /\ ~isSenderAllowed(id, allowFromStore)

PastStoreRead(f) == f.pc \in {"upsert", "pairSend", "dispatch", "done"}

\* C8 as stated: under dmPolicy = open a direct event with a conversation
\* id and a body, from a sender that is no bot, reaches context building
\* and (unless context building fails) the dispatcher, whatever the other
\* DM settings of the account are.
C8_OpenAsStated ==
  \A r \in Slots :
    LET f == runs[r]
    IN  (DirectRun(f) /\ DmPolicyOf(cfg) = "open" /\ WellFormed(f) /\ NonBot(f)
           /\ PastStoreRead(f))
          => /\ "resolveAgentRoute" \in Ops(f)
             /\ f.outcome # "failed" => DispatcherInvoked(f)

\* C8, amended: under dmPolicy = open and dm.enabled not false, a direct
\* event with a conversation id and a body, from a sender that is no bot,
\* reaches context building and (unless context building fails) the
\* dispatcher, whether or not the sender is on an allow-list; with
\* dm.enabled = false the event is dropped as under dmPolicy = disabled.
C8_OpenContinues ==
  \A r \in Slots :
    LET f == runs[r]
    IN  (DirectRun(f) /\ DmPolicyOf(cfg) = "open" /\ WellFormed(f) /\ NonBot(f)
           /\ PastStoreRead(f))
          => IF DmDisabledFlag(cfg)
               THEN f.outcome = "dmDisabled" /\ ~DispatcherInvoked(f)
               ELSE /\ "resolveAgentRoute" \in Ops(f)
                    /\ f.outcome # "failed" => DispatcherInvoked(f) /\ f.ctx # None

\* Under dmPolicy = open a direct message of a sender that is on no
\* allow-list has reached the dispatcher.
C8_Witness ==
  \E r \in Slots :
    LET f == runs[r]
    IN  /\ DirectRun(f) /\ DmPolicyOf(cfg) = "open" /\ ~DmDisabledFlag(cfg)
        /\ ~isSenderAllowed(SenderIdOf(f.ev[1]),
                            ConfigAllowFromOf(cfg) \o allowFromStore)
        /\ DispatcherInvoked(f)
        /\ f.ctx[1].ChatType = "direct"

(***************************************************************************)
(* Rejections and failures                                                 *)
(***************************************************************************)
\* The outcomes of an event that a gate has rejected.
Rejections ==
  {"bot", "groupDisabled", "groupNoAllowlist", "groupNotAllowlisted",
   "groupEntryDisabled", "groupSender", "mention", "dmDisabled", "dmPairing",
   "dmUnauthorized", "controlCommand"}

\* C9: for an event that a gate has rejected the dispatcher was not invoked,
\* no context was built and deliver was not called; sendFeishuText was
\* called once, for the pairing-code reply addressed to the sender, if the
\* rejection is the pairing step's and the request was newly created, and
\* not at all otherwise.  The pairing-code reply is the only message the
\* rejecting paths send: none of them sends an error message.
C9_RejectionsSendNothing ==
  \A r \in Slots :
    LET f == runs[r]
    IN  /\ f.outcome \in Rejections
          => /\ ~DispatcherInvoked(f)
             /\ f.ctx = None
             /\ f.lastDeliver = NoDelivery
             /\ SendCalls(f) = IF f.created = Some(TRUE) THEN 1 ELSE 0
             /\ f.created = Some(TRUE) => f.outcome = "dmPairing"
        /\ \A i \in 1..Len(f.trace) :
             f.trace[i].op \in {"sendFeishuText", "sendRejected"}
               => /\ f.created = Some(TRUE)
                  /\ f.trace[i].arg = PrefixOpenId \o SenderIdOf(f.ev[1])
                  /\ i > 1 /\ f.trace[i - 1].op \in {"upsertPairingRequest",
                                                     "log.pairingRequest"}

\* A direct message was rejected at the pairing step with a newly created
\* request, and its pairing-code reply was delivered.
C9_Witness ==
  \E r \in Slots :
    LET f == runs[r]
    IN  /\ f.outcome = "dmPairing" /\ f.created = Some(TRUE)
        /\ "sent" \in Ops(f)
        /\ SendCalls(f) = 1

\* A step of the pipeline has failed for the invocation: the upsert, route
\* resolution or the dispatcher (outcome "failed"), or a send that the
\* platform has answered with a failure.
FailureSeen(f) ==
  \/ f.outcome = "failed"
  \/ "sendFailed" \in Ops(f)
  \/ (f.lastDeliver.called /\ f.lastDeliver.to # None /\ Trim(f.lastDeliver.text) # <<>> /\ ~f.lastDeliver.sent)

\* C10 as stated, with any log line about the failure taken for a report:
\* whichever step of the pipeline has failed, once the handler has returned
\* the failure is reported in a log.
C10_FailuresReported ==
  \A r \in Slots :
    LET f == runs[r]
    IN  (FailureSeen(f) /\ f.pc = "done")
          => f.errors # {} \/ "log.pairingReplyFailed" \in Ops(f)

(***************************************************************************)
(* Allow-list matching                                                     *)
(***************************************************************************)
\* The allow-list of the call under observation holds the wildcard token.
HasWildcard(list) == \E i \in 1..Len(list) : list[i] = Star

\* C11: a call of isSenderAllowed with an allow-list that holds the
\* wildcard token "*" returns true for every sender id, the empty string
\* included, whatever the other entries of the list are.
C11_WildcardAllowsAll ==
  (allowCheck.result # None /\ HasWildcard(allowCheck.allowFrom))
    => allowCheck.result = Some(TRUE)

\* The call has returned true for the empty sender id and a list that holds
\* the wildcard token next to an entry that does not match.
C11_Witness ==
  /\ allowCheck.result = Some(TRUE)
  /\ allowCheck.senderId = <<>>
  /\ allowCheck.allowFrom = <<U2, Star>>

IdForms(id) == { id, ToLowerCase(id), Trim(id), ToLowerCase(Trim(id)) }

PastAuthorize(f) ==
  "shouldComputeCommandAuthorized" \in Ops(f) /\ f.pc # "readStore"

\* The sender matches the allow-list that applies to the conversation: the
\* member list of the resolved group entry, or the configured DM allow-list
\* followed by the store's list as this invocation has read it.
SenderOnApplicableList(f) ==
  LET e == resolveGroupConfig(ChatIdOf(f.ev[1]), None, cfg.account.groups).entry
      list == IF IsGroupOf(f.ev[1])
                THEN (IF e = None \/ e[1].users = None THEN <<>> ELSE e[1].users[1])
                ELSE (IF cfg.account.dm = None \/ cfg.account.dm[1].allowFrom = None
                        THEN <<>> ELSE cfg.account.dm[1].allowFrom[1])
                       \o f.storeAllowFrom
  IN  isSenderAllowed(SenderIdOf(f.ev[1]), list)

\* C13: once an invocation has come past the computation of
\* commandAuthorized, the value is undefined if the should-compute predicate
\* answered false, and otherwise it is true exactly if useAccessGroups is
\* false or the sender matches the applicable allow-list (the group entry's
\* member list for a group conversation, the configured DM allow-list
\* together with the store's allow-list for a direct one); the context
\* handed to the dispatcher carries that value.
C13_CommandAuthorized ==
  \A r \in Slots :
    LET f == runs[r]
    IN  /\ (f.pc # "idle" /\ ~PastAuthorize(f)) => f.commandAuthorized = None
        /\ PastAuthorize(f)
             => /\ f.commandAuthorized =
                     IF f.core[1].shouldComputeAuth
                       THEN Some(cfg.useAccessGroups = Some(FALSE)
                                   \/ SenderOnApplicableList(f))
                       ELSE None
                /\ f.ctx # None => f.ctx[1].CommandAuthorized = f.commandAuthorized

\* With useAccessGroups on and no configured DM allow-list, a direct
\* command of a sender whom the store's allow-list names is authorized.
C13_Witness ==
  \E r \in Slots :
    LET f == runs[r]
    IN  /\ DirectRun(f) /\ PastAuthorize(f)
        /\ UseAccessGroupsOf(cfg) /\ ConfigAllowFromOf(cfg) = <<>>
        /\ f.storeAllowFrom = <<U1>>
        /\ f.commandAuthorized = Some(TRUE)

(***************************************************************************)
(* Delivery of replies                                                     *)
(***************************************************************************)
\* C14: a call of deliver with a non-blank text makes one send, addressed
\* to the conversation the inbound event came from (receive id type chat_id,
\* receive id the event's conversation id, for a group as for a direct
\* event) and to no other target; a call with an empty or whitespace-only
\* text sends nothing, raises nothing and emits no status update.
C14_DeliverToOrigin ==
  \A r \in Slots :
    LET f == runs[r]
        d == f.lastDeliver
    IN  d.called
          => IF Trim(d.text) = <<>>
               THEN d.to = None /\ ~d.sent /\ ~d.status /\ ~d.raised
               ELSE /\ d.to # None
                    /\ resolveReceiveTarget(d.to[1]) =
                         Some([receiveIdType |-> "chat_id",
                               receiveId |-> Trim(f.ev[1].message[1].chat_id[1])])

\* The reply to a direct message of U1 was sent to the conversation g1 the
\* message came from.
C14_Witness ==
  \E r \in Slots :
    LET f == runs[r]
        d == f.lastDeliver
    IN  /\ d.called /\ d.sent /\ d.text = Hi
        /\ d.to = Some(PrefixChat \o G1)
        /\ DirectRun(f)
        /\ SenderIdOf(f.ev[1]) = U1

\* C15: a lastOutboundAt status update is emitted only after a send to the
\* platform has succeeded for the same event: the update of deliver comes
\* with a send that succeeded, the update of the pairing step directly
\* follows the success of the pairing-code send, and a delivery or a
\* pairing-code send that fails emits no update.
C15_OutboundAfterSend ==
  \A r \in Slots :
    LET f == runs[r]
        d == f.lastDeliver
    IN  /\ d.status => d.sent /\ d.to # None
        /\ (d.called /\ ~d.sent) => ~d.status
        /\ \A i \in 1..Len(f.trace) :
             f.trace[i].op = "statusSink.lastOutboundAt"
               => i > 1 /\ f.trace[i - 1].op = "sent"
        /\ "sendFailed" \in Ops(f) => "statusSink.lastOutboundAt" \notin Ops(f)

\* The platform has failed the send of a reply, and no update was emitted.
C15_Witness ==
  \E r \in Slots :
    LET d == runs[r].lastDeliver
    IN  d.called /\ d.text = Hi /\ d.to # None /\ ~d.sent /\ d.raised /\ ~d.status

(***************************************************************************)
(* The connection registry                                                 *)
(***************************************************************************)
\* C16: at every moment at most one connection of the account has been
\* started and not stopped, and a connection that is running is the one the
\* registry maps the account id to: a connection that was removed from the
\* registry or overwritten in it is not left running.
C16_OneLiveConnection ==
  /\ Cardinality({ i \in 1..Len(clients) : clients[i].running }) <= 1
  /\ \A i \in 1..Len(clients) : clients[i].running => activeClients = Some(i)

(***************************************************************************)
(* The session-metadata recording                                          *)
(***************************************************************************)
\* C17: the dispatcher is invoked in the step that starts the recording,
\* whatever becomes of the recording; the recording settles at any point of
\* the dispatch or after it without changing where the invocation stands,
\* its outcome or its deliveries; a recording that has failed is in the
\* error log and the invocation has not failed on its account.
C17_RecordingDetached ==
  /\ [](\A r \in Slots :
          LET f == runs[r]
          IN  /\ f.rec # "none" => DispatcherInvoked(f) /\ f.ctx # None
              /\ f.rec = "failed" => "failed updating session meta" \in f.errors)
  /\ [][\A r \in Slots :
          (runs[r].rec = "pending" /\ runs'[r].rec \in {"ok", "failed"})
            => /\ runs'[r].pc = runs[r].pc
               /\ runs'[r].outcome = runs[r].outcome
               /\ runs'[r].lastDeliver = runs[r].lastDeliver
               /\ runs'[r].trace = runs[r].trace]_vars

\* The recording has failed, and the reply was sent and the pipeline has
\* returned from the dispatch all the same.
C17_Witness ==
  \E r \in Slots :
    LET f == runs[r]
    IN  /\ f.rec = "failed"
        /\ f.outcome = "dispatched"
        /\ f.lastDeliver.sent
        /\ f.errors = {"failed updating session meta"}

(***************************************************************************)
(* Failures of the pairing step and of the store read                      *)
(***************************************************************************)
\* The lines the pipeline writes to a log.
LogLines(f) ==
  f.errors
    \cup (Ops(f) \cap
            {"log.skipBot", "log.skipBotOpenId", "log.dropGroupDisabled",
             "log.dropNoAllowlist", "log.dropNotAllowlisted",
             "log.dropChatDisabled", "log.dropSenderNotAllowed",
             "log.dropMentionRequired", "log.dmDisabled", "log.dmUnauthorized",
             "log.dropControlCommand", "log.pairingRequest",
             "log.pairingReplyFailed"})

\* C18, as stated: under dmPolicy = pairing, when the platform fails the
\* pairing-code reply of a newly created request, the failure is logged,
\* the pipeline returns normally with the event rejected, the dispatcher is
\* not invoked and no lastOutboundAt update is emitted.
C18_PairingSendFailureLogged ==
  \A r \in Slots :
    LET f == runs[r]
    IN  (DmPolicyOf(cfg) = "pairing" /\ f.created = Some(TRUE)
           /\ "sendFailed" \in Ops(f))
          => /\ "log.pairingReplyFailed" \in LogLines(f)
             /\ f.pc = "done" /\ f.outcome = "dmPairing"
             /\ "feishu event handler failed" \notin f.errors
             /\ ~DispatcherInvoked(f)
             /\ "statusSink.lastOutboundAt" \notin Ops(f)

\* C19, as stated, with verbose logging on and with any line the
\* invocation has written to any log by the time the handler returns taken
\* for the report: when the read of the store's allow-list fails for a
\* direct event, the pipeline goes on with an empty store allow-list and
\* does not fail on account of the read, and the failure is logged.
C19_StoreReadFailureLogged ==
  \A r \in Slots :
    LET f == runs[r]
    IN  (DirectRun(f) /\ f.storeRead = "failed" /\ cfg.verbose)
          => /\ f.storeAllowFrom = <<>>
             /\ PastAuthorize(f)
             /\ f.pc = "done" => LogLines(f) # {}

(***************************************************************************)
(* The DM gate under the allowlist policy                                  *)
(***************************************************************************)
\* The sender matches the configured DM allow-list followed by the store's
\* list as the invocation has read it.
OnMergedList(f) ==
  isSenderAllowed(SenderIdOf(f.ev[1]), ConfigAllowFromOf(cfg) \o f.storeAllowFrom)

\* The invocation was dropped without a pairing request, a message to the
\* sender or a dispatch.
DroppedSilently(f) ==
  /\ f.pc = "done" /\ f.outcome \in {"dmUnauthorized", "dmDisabled"}
  /\ "upsertPairingRequest" \notin Ops(f)
  /\ SendCalls(f) = 0 /\ f.lastDeliver = NoDelivery
  /\ ~DispatcherInvoked(f)

\* The invocation has passed the DM gate: route resolution was reached and
\* no pairing request was made.
PassedDmGate(f) ==
  "resolveAgentRoute" \in Ops(f) /\ "upsertPairingRequest" \notin Ops(f)

\* C20 as stated: under dmPolicy = allowlist a direct message of a sender
\* that does not match the merged allow-list is dropped without a pairing
\* request and without a message to the sender, and a sender that matches
\* the merged list passes the DM gate under the allowlist and the pairing
\* policy.
C20_AllowlistAsStated ==
  \A r \in Slots :
    LET f == runs[r]
    IN  (DirectRun(f) /\ PastAuthorize(f))
          => /\ (DmPolicyOf(cfg) = "allowlist" /\ ~OnMergedList(f))
                  => DroppedSilently(f)
             /\ (DmPolicyOf(cfg) \in {"allowlist", "pairing"} /\ OnMergedList(f))
                  => PassedDmGate(f)

\* C20, amended: the first half as stated, with no pairing request pending
\* or created in the store either; a sender that matches the merged list
\* passes the DM gate under the allowlist and the pairing policy unless
\* dm.enabled is false, and with dm.enabled = false the message is dropped
\* as under dmPolicy = disabled.
C20_AllowlistDropsSilently ==
  \A r \in Slots :
    LET f == runs[r]
    IN  (DirectRun(f) /\ PastAuthorize(f))
          => /\ (DmPolicyOf(cfg) = "allowlist" /\ ~OnMergedList(f))
                  => DroppedSilently(f) /\ pendingPairing = {}
                       /\ DOMAIN createdRequests = {}
             /\ (DmPolicyOf(cfg) \in {"allowlist", "pairing"} /\ OnMergedList(f))
                  => IF DmDisabledFlag(cfg)
                       THEN DroppedSilently(f) /\ f.outcome = "dmDisabled"
                       ELSE PassedDmGate(f)

\* Under dmPolicy = allowlist with no configured allow-list the message of
\* U1, whom the store's list does not name, was dropped.
C20_Witness ==
  \E r \in Slots :
    LET f == runs[r]
    IN  /\ DirectRun(f) /\ DmPolicyOf(cfg) = "allowlist" /\ ~DmDisabledFlag(cfg)
        /\ SenderIdOf(f.ev[1]) = U1
        /\ f.storeRead = "ok" /\ ~OnMergedList(f)
        /\ f.outcome = "dmUnauthorized"

(***************************************************************************)
(* The read of the pairing store                                           *)
(***************************************************************************)
\* The places of a call or log line in the trace of an invocation.
Places(f, op) == { i \in 1..Len(f.trace) : f.trace[i].op = op }

\* C21: an invocation reads the store's allow-list at most once; never for
\* a group event; for a direct event not when dmPolicy is open and the
\* should-compute predicate answers false; and in every other case of a
\* direct event that comes as far as the authorization step the read is
\* made, and has settled, before the sender is matched, before the DM gate
\* logs or asks for a pairing request and before the route is resolved.
C21_StoreReadOnceWhenNeeded ==
  \A r \in Slots :
    LET f == runs[r]
        reads == Places(f, "readAllowFromStore")
        skip == DmPolicyOf(cfg) = "open" /\ ~f.core[1].shouldComputeAuth
    IN  /\ Cardinality(reads) <= 1
        /\ GroupRun(f) => reads = {} /\ f.storeRead = "none"
        /\ (DirectRun(f) /\ skip) => reads = {} /\ f.storeRead = "none"
        /\ (DirectRun(f) /\ ~skip /\ "shouldComputeCommandAuthorized" \in Ops(f))
             => /\ Cardinality(reads) = 1
                /\ f.pc # "readStore" => f.storeRead \in {"ok", "failed"}
                /\ \A i \in 1..Len(f.trace) :
                     f.trace[i].op \in {"isSenderAllowed", "resolveCommandAuthorized",
                                        "upsertPairingRequest", "log.dmDisabled",
                                        "log.dmUnauthorized", "resolveAgentRoute"}
                       => \A j \in reads : j < i

\* A direct command under dmPolicy = open has read the store and was
\* dispatched.
C21_Witness ==
  \E r \in Slots :
    LET f == runs[r]
    IN  /\ DirectRun(f) /\ DmPolicyOf(cfg) = "open"
        /\ f.core[1].shouldComputeAuth
        /\ f.storeRead = "ok"
        /\ DispatcherInvoked(f)

(***************************************************************************)
(* The resolved group entry                                                *)
(***************************************************************************)
\* The entry of the configured map that stands for the conversation of an
\* invocation: the one under the conversation id, else the one under "*".
EntryFor(f) ==
  LET groups == Coalesce(cfg.account.groups, <<>>)
  IN  IF ChatIdOf(f.ev[1]) \in DOMAIN groups THEN Some(groups[ChatIdOf(f.ev[1])])
      ELSE IF Star \in DOMAIN groups THEN Some(groups[Star])
      ELSE None

EntrySwitchedOff(f) ==
  EntryFor(f) # None
    /\ (EntryFor(f)[1].enabled = Some(FALSE) \/ EntryFor(f)[1].allow = Some(FALSE))

\* C22: a group event whose entry, found under the conversation id or under
\* the wildcard, has enabled = false or allow = false is rejected under
\* every group policy: the pipeline has returned at one of the filters
\* before the group gate, at the groupPolicy = disabled check or, for every
\* other policy, open included, at the check of the entry; the sender is
\* not matched, command authorization is not computed and the dispatcher
\* is never invoked.
C22_SwitchedOffEntryRejects ==
  \A r \in Slots :
    LET f == runs[r]
    IN  (GroupRun(f) /\ EntrySwitchedOff(f))
          => /\ f.pc = "done"
             /\ f.outcome \in {"malformed", "bot", "groupDisabled", "groupEntryDisabled"}
             /\ (WellFormed(f) /\ f.outcome # "bot" /\ GroupPolicyOf(cfg) # "disabled")
                  => f.outcome = "groupEntryDisabled"
             /\ Ops(f) \cap {"isSenderAllowed", "shouldComputeCommandAuthorized",
                             "extractMentionInfo", "resolveAgentRoute",
                             "dispatchReply"} = {}

\* Under groupPolicy = open a group event whose conversation has no entry
\* of its own was rejected for the wildcard entry's enabled = false.
C22_Witness ==
  \E r \in Slots :
    LET f == runs[r]
        groups == Coalesce(cfg.account.groups, <<>>)
    IN  /\ GroupRun(f) /\ GroupPolicyOf(cfg) = "open"
        /\ ChatIdOf(f.ev[1]) \notin DOMAIN groups
        /\ EntrySwitchedOff(f)
        /\ f.outcome = "groupEntryDisabled"

(***************************************************************************)
(* The member list of a group entry                                        *)
(***************************************************************************)
\* The entry of the conversation is not switched off and lists members.
HasMemberList(f) ==
  /\ EntryFor(f) # None /\ ~EntrySwitchedOff(f)
  /\ Coalesce(EntryFor(f)[1].users, <<>>) # <<>>

\* C23: when the entry of a group event has a non-empty member list, the
\* event passes the group gate only if the sender matches the list: under
\* groupPolicy = allowlist and open alike a well-formed event of a sender
\* that does not match is rejected at the member check, before command
\* authorization, the mention gate and the dispatcher; and no event is
\* rejected there whose sender matches.
C23_MemberListGates ==
  \A r \in Slots :
    LET f == runs[r]
        member == isSenderAllowed(SenderIdOf(f.ev[1]), EntryFor(f)[1].users[1])
    IN  (GroupRun(f) /\ HasMemberList(f) /\ GroupPolicyOf(cfg) \in {"allowlist", "open"})
          => /\ (~member /\ WellFormed(f) /\ f.outcome # "bot")
                  => /\ f.pc = "done" /\ f.outcome = "groupSender"
                     /\ Ops(f) \cap {"shouldComputeCommandAuthorized",
                                     "extractMentionInfo", "resolveAgentRoute",
                                     "dispatchReply"} = {}
             /\ ~member => ~DispatcherInvoked(f) /\ f.outcome \notin {"mention", "dispatched"}
             /\ member => f.outcome # "groupSender"

\* Under groupPolicy = open a sender that is not on the member list of the
\* conversation's entry was rejected at the member check.
C23_Witness ==
  \E r \in Slots :
    LET f == runs[r]
    IN  /\ GroupRun(f) /\ HasMemberList(f) /\ GroupPolicyOf(cfg) = "open"
        /\ ~isSenderAllowed(SenderIdOf(f.ev[1]), EntryFor(f)[1].users[1])
        /\ f.outcome = "groupSender"

(***************************************************************************)
(* The order of the group entry resolution                                 *)
(***************************************************************************)
\* The entry the stated order yields for a call, the third step looking
\* under the key `lowered`: the entry under the id, else the one under the
\* name as written, else the one under `lowered`, else the one under "*".
EntryByOrder(call, lowered) ==
  LET entries == Coalesce(call.groups, <<>>)
      keys == DOMAIN entries
      name == Coalesce(call.groupName, <<>>)
  IN  IF call.groupId \in keys THEN Some(entries[call.groupId])
      ELSE IF name # <<>> /\ name \in keys THEN Some(entries[name])
      ELSE IF lowered # <<>> /\ lowered \in keys THEN Some(entries[lowered])
      ELSE IF Star \in keys THEN Some(entries[Star])
      ELSE None

\* The group gate has rejected the event for the lack of an entry.
RejectedForNoEntry(call) ==
  call.outcome \in {Some("groupNoAllowlist"), Some("groupNotAllowlisted")}

\* The conversation has no entry of its own and the map has no wildcard
\* entry (the pipeline knows the conversation by its id only).
NoEntryNoWildcard(call) ==
  LET keys == DOMAIN Coalesce(call.groups, <<>>)
  IN  call.groupId \notin keys /\ Star \notin keys

Malformed(f) ==
  f.pc # "idle"
    /\ (f.ev[1].message = None \/ ChatIdOf(f.ev[1]) = <<>> \/ RawBodyOf(f.ev[1]) = <<>>)

\* The bot-message filter, which stands before the body check, applies to
\* the event of the invocation.
BotFiltered(f) ==
  /\ f.ev[1].message # None /\ ChatIdOf(f.ev[1]) # <<>>
  /\ cfg.account.allowBots # Some(TRUE)
  /\ ~NonBot(f)

\* C25: an event with no message, a blank conversation id or a body that
\* is empty after trimming is dropped before anything is done for it: the
\* pipeline has returned without a store read, a pairing request, a send
\* to the platform, a status update, a dispatcher invocation or an error
\* line; and without a log line, unless the event has a conversation id
\* and is first dropped by the bot-message filter, whose verbose line is
\* then the only thing written.
C25_MalformedDropped ==
  \A r \in Slots :
    LET f == runs[r]
    IN  Malformed(f)
          => /\ f.pc = "done" /\ f.outcome \in {"malformed", "bot"}
             /\ f.errors = {} /\ f.storeRead = "none" /\ f.lastDeliver = NoDelivery
             /\ Ops(f) \subseteq {"log.skipBot", "log.skipBotOpenId"}
             /\ Len(f.trace) <= 1
             /\ Ops(f) # {} <=> (BotFiltered(f) /\ cfg.verbose)
             /\ f.outcome = "bot" <=> BotFiltered(f)

\* An event with a blank body from an ordinary user was dropped with
\* nothing done for it, under verbose logging.
C25_Witness ==
  \E r \in Slots :
    LET f == runs[r]
    IN  /\ f.pc = "done" /\ f.outcome = "malformed" /\ cfg.verbose
        /\ f.ev[1].message # None /\ ChatIdOf(f.ev[1]) # <<>>
        /\ RawBodyOf(f.ev[1]) = <<>>
        /\ f.trace = <<>> /\ f.errors = {}

\* C25 as stated: nothing at all is written or done for such an event.
C25_MalformedSilentAsStated ==
  \A r \in Slots :
    LET f == runs[r]
    IN  Malformed(f)
          => /\ f.pc = "done"
             /\ f.trace = <<>> /\ f.errors = {}
             /\ f.storeRead = "none" /\ f.lastDeliver = NoDelivery

(***************************************************************************)
(* The control-command gate                                                *)
(***************************************************************************)
\* The invocation has gone through the mention gate without being dropped.
PassedMentionGate(f) ==
  "extractMentionInfo" \in Ops(f) /\ f.outcome # "mention"

\* C26: in a group, an event the core takes for a control command reaches
\* the dispatcher only if commandAuthorized is true for it: with
\* commandAuthorized false or undefined, an event that has passed the
\* group gate and the mention gate is dropped at the control-command gate,
\* before the route is resolved, and no event is dropped there whose
\* commandAuthorized is true.
C26_ControlCommandNeedsAuthorization ==
  \A r \in Slots :
    LET f == runs[r]
    IN  (GroupRun(f) /\ f.core[1].isControlCommand)
          => /\ DispatcherInvoked(f) => f.commandAuthorized = Some(TRUE)
             /\ "resolveAgentRoute" \in Ops(f) => f.commandAuthorized = Some(TRUE)
             /\ (PassedMentionGate(f) /\ f.commandAuthorized # Some(TRUE))
                  => f.pc = "done" /\ f.outcome = "controlCommand"
             /\ f.outcome = "controlCommand"
                  => PassedMentionGate(f) /\ f.commandAuthorized # Some(TRUE)

\* A control command for which command authorization was not computed
\* (commandAuthorized undefined) has passed the mention gate and was
\* dropped at the control-command gate.
C26_Witness ==
  \E r \in Slots :
    LET f == runs[r]
    IN  /\ GroupRun(f) /\ f.core[1].isControlCommand
        /\ f.commandAuthorized = None
        /\ PassedMentionGate(f)
        /\ f.outcome = "controlCommand"

(***************************************************************************)
(* The bot-message filter                                                  *)
(***************************************************************************)
\* The event has a message with a conversation id, so that the invocation
\* comes to the bot-message filter.
ReachesBotFilter(f) ==
  f.pc # "idle" /\ f.ev[1].message # None /\ ChatIdOf(f.ev[1]) # <<>>

\* C27: when allowBots is not true, an event whose sender kind is bot or
\* whose sender id is the bot's own open id is dropped at the bot-message
\* filter, under every group and DM policy: the pipeline has returned,
\* with at most the filter's verbose line written, without a store read, a
\* pairing request, a send to the platform or a dispatcher invocation.
\* When allowBots is true the filter drops no event and writes no line.
C27_BotMessagesFiltered ==
  \A r \in Slots :
    LET f == runs[r]
    IN  ReachesBotFilter(f)
          => /\ (cfg.account.allowBots # Some(TRUE) /\ ~NonBot(f))
                  => /\ f.pc = "done" /\ f.outcome = "bot"
                     /\ Ops(f) \subseteq {"log.skipBot", "log.skipBotOpenId"}
                     /\ f.storeRead = "none" /\ f.errors = {}
                     /\ f.lastDeliver = NoDelivery
             /\ cfg.account.allowBots = Some(TRUE)
                  => /\ f.outcome # "bot"
                     /\ Ops(f) \cap {"log.skipBot", "log.skipBotOpenId"} = {}
             /\ f.outcome = "bot" => ~NonBot(f)

\* Under the pairing policy a direct event whose sender id is the bot's own
\* open id was dropped by the filter, and no pairing request was made.
C27_Witness ==
  \E r \in Slots :
    LET f == runs[r]
    IN  /\ DirectRun(f) /\ DmPolicyOf(cfg) = "pairing"
        /\ cfg.account.allowBots # Some(TRUE)
        /\ SenderTypeOf(f.ev[1]) # Some(Bot)
        /\ SenderIdOf(f.ev[1]) = BotOpenId
        /\ f.outcome = "bot"
        /\ DOMAIN createdRequests = {}

(***************************************************************************)
(* Concurrent events of an unknown sender                                  *)
(***************************************************************************)
\* The calls of sendFeishuText made by all the invocations together.
AllSendCalls ==
  Cardinality(UNION { { <<r, i>> : i \in Places(runs[r], "sendFeishuText") } :
                        r \in Slots })

\* C28: when the host processes several direct events of the same unknown
\* sender at once under dmPolicy = pairing, then in every interleaving of
\* their store reads, upserts and sends the store creates at most one
\* request for the sender, the invocations together make at most one call
\* that sends a pairing-code reply, at most one reply is delivered, the
\* call is made by an invocation whose upsert reported created = true, and
\* no invocation resolves a route or invokes the dispatcher.
C28_OneReplyForConcurrentEvents ==
  (DmPolicyOf(cfg) = "pairing" /\ UnknownSender(U1))
    => /\ Created(U1) <= 1
       /\ AllSendCalls <= 1
       /\ Replies(U1) <= 1
       /\ \A r \in Slots :
            LET f == runs[r]
            IN  /\ "sendFeishuText" \in Ops(f) => f.created = Some(TRUE)
                /\ Ops(f) \cap {"resolveAgentRoute", "dispatchReply"} = {}
                /\ f.pc = "done" => f.outcome \in {"dmPairing", "failed"}

\* Two invocations for U1 have both read the store and upserted; one was
\* told created = true and its reply was delivered, the other was told
\* false and has sent nothing.
C28_Witness ==
  \E r1, r2 \in Slots :
    /\ r1 # r2
    /\ runs[r1].pc = "done" /\ runs[r1].created = Some(TRUE)
    /\ "sent" \in Ops(runs[r1])
    /\ runs[r2].pc = "done" /\ runs[r2].created = Some(FALSE)
    /\ runs[r2].storeRead = "ok" /\ runs[r1].storeRead = "ok"
    /\ SendCalls(runs[r2]) = 0
    /\ Replies(U1) = 1

(***************************************************************************)
(* The account status                                                      *)
(***************************************************************************)
\* C29: the status reports running = true only while a connection is
\* registered for the account: a start that fails for missing credentials
\* does not leave it at true.
C29_RunningOnlyWhileRegistered ==
  status.running => activeClients # None

(***************************************************************************)
(* The empty sender id                                                     *)
(***************************************************************************)
\* C30: an empty sender id is never taken for an identified sender:
\* isSenderAllowed answers false for a sender id that is empty (or blank)
\* against every allow-list without the wildcard, lists with prefix-only
\* entries such as "user:" included.
C30_EmptySenderNeverAllowed ==
  (allowCheck.result # None /\ Trim(allowCheck.senderId) = <<>>
     /\ ~HasWildcard(allowCheck.allowFrom))
    => allowCheck.result = Some(FALSE)

====
